---------------------------- MODULE Spec2Model ----------------------------
(***************************************************************************)
(* State-machine model of the redumper dump/refine engine                  *)
(* (src/redumper.cc, redumper_dump and its helpers).                       *)
(*                                                                         *)
(* A run of redumper_dump is modelled at the granularity of the program    *)
(* positions between which the outside world can act: the entry, the top   *)
(* of the per-LBA loop, the sector read, each stream write of a store and  *)
(* the end-of-iteration poll of the interrupt latch.  The drive, the       *)
(* LG/ASUS cache and the signal are inputs chosen with \E.                 *)
(*                                                                         *)
(* Scaling: a sector has CD_DATA_SIZE_SAMPLES = 2 * CD_C2_SIZE samples     *)
(* (588 = 2 * 294 in the program); a data word is a provenance tag.        *)
(***************************************************************************)
EXTENDS Integers, Sequences, FiniteSets, TLC

VARIABLES
    cfg,                \* options, drive_config and the disc TOC (inputs)
    pc,                 \* position inside redumper_dump
    fs_scm, fs_sub, fs_state,          \* the three LBA-indexed streams
    lba_start, lba_end, error_ranges, skip_ranges,
    lba, lba_next, lba_overread,
    errors_scsi, errors_c2, errors_q, errors_q_last,
    subcode_shift,
    lba_refine, refine_counter, refine_processed, refine_count,
    asus_leadout_buffer,
    sector_data, sector_subcode, sector_state, flush,
    engaged, interrupt,                \* Signal singleton
    result,                            \* return value of redumper_dump
    faults,                            \* drive anomalies used so far
    reads, flushes, wrote,             \* history: commands and writes per LBA
    failed, c2seen,                    \* history: LBAs with a failed read / C2 sector
    stopped, after_stop,               \* history: forced stop seen / command after it
    thrown,                            \* history: an exception left the loop
    mode_ix, skip_refine,              \* redumper(): position in the mode list
    toc_file, state_file,              \* the .toc file, existence of .state
    ran,                               \* history: modes run or skipped, results
    touched,                           \* history: files modified by this run
    leadin_buffers,                    \* history: lead-in buffers committed
    prelude_log,                       \* history: totals each refine prelude found
    call                               \* a call of a function outside the engine

vars == << cfg, pc, fs_scm, fs_sub, fs_state, lba_start, lba_end, error_ranges,
           skip_ranges, lba, lba_next, lba_overread, errors_scsi, errors_c2,
           errors_q, errors_q_last, subcode_shift, lba_refine, refine_counter,
           refine_processed, refine_count, asus_leadout_buffer, sector_data,
           sector_subcode, sector_state, flush, engaged, interrupt, result,
           faults, reads, flushes, wrote, failed, c2seen, stopped, after_stop,
           thrown, mode_ix, skip_refine, toc_file, state_file, ran, touched,
           leadin_buffers, prelude_log, call >>

-----------------------------------------------------------------------------
(* Bounds of the model *)

\* anomalies per run: defective sectors in the streams a refine starts from,
\* and failed reads, C2 bits, bad or shifted Q delivered by the drive
MaxFaults == 2
\* C2 bytes per sector in the model (294 in the program)
CD_C2_SIZE == 1
\* sectors between the start of a session's pre-gap and its first track
\* (150 in the program)
LeadinShift == 2

\* payload bytes of a sector of the scrambler (2336)
UserBytes == 4

-----------------------------------------------------------------------------
(* Program constants *)

LBA_START == -45150
MSF_LBA_SHIFT == 0 - LeadinShift
CD_DATA_SIZE_SAMPLES == 2 * CD_C2_SIZE

\* enum class State, ordered
ERROR_SKIP == 0
ERROR_C2 == 1
SUCCESS_C2_OFF == 2
SUCCESS_SCSI_OFF == 3
SUCCESS == 4

States == ERROR_SKIP..SUCCESS

\* MSF_to_LBA(MSF{74, 0, 0})
LBA_74MIN == 74 * 60 * 75 - 150

\* uint32_t arithmetic wraps; the model wraps at 2^30, the largest power of two
\* the checker's integers hold, so that 0 - 1 is a huge value as in the program
U32(x) == x % 1073741824

Samples == 0..(CD_DATA_SIZE_SAMPLES - 1)

\* LBAs the model's discs and streams cover
LBAs == (0 - 2)..8

\* data words: 0 is a hole of the file, OldWord was stored by an earlier run,
\* NewWord(n) is delivered by the drive at attempt n of the current run
NewWord(n) == 2 + n
OldWord == NewWord(0 - 1)
\* the data of a lead-in entry
LeadinWord == NewWord(8)

-----------------------------------------------------------------------------
(* Channel Q of a subcode record: CRC validity, adr = 1 with tno # 0, and     *)
(* the LBA its a_msf decodes to.                                              *)

QZero == [valid |-> FALSE, pos |-> FALSE, lbaq |-> 0]
QGood(l) == [valid |-> TRUE, pos |-> TRUE, lbaq |-> l]
QBad == [valid |-> FALSE, pos |-> TRUE, lbaq |-> 0]
\* a valid Q of the lead-in: tno = 0, a TOC entry and no position
QToc == [valid |-> TRUE, pos |-> FALSE, lbaq |-> 0]

-----------------------------------------------------------------------------
(* Random-access streams: read_entry / write_entry                           *)

\* positions (in samples, records) a stream of the model holds
StreamDomain(entry_size) ==
    ((0 - 2 - LBA_START) * entry_size - 2)..((9 - LBA_START) * entry_size + 2)

EmptyStream(entry_size, fill) == [p \in StreamDomain(entry_size) |-> fill]

\* faulty variant: the stream is read at the entry boundary
read_entry_unshifted(fs, entry_size, entry_index, shift, fill) ==
    [i \in 0..(entry_size - 1) |->
        LET p == entry_index * entry_size + i
        IN  IF p \in DOMAIN fs THEN fs[p] ELSE fill]

read_entry(fs, entry_size, entry_index, shift, fill) ==
    [i \in 0..(entry_size - 1) |->
        LET p == entry_index * entry_size + shift + i
        IN  IF p \in DOMAIN fs THEN fs[p] ELSE fill]

write_entry(fs, buf, entry_size, entry_index, shift) ==
    [p \in DOMAIN fs |->
        LET i == p - (entry_index * entry_size + shift)
        IN  IF i \in 0..(entry_size - 1) THEN buf[i] ELSE fs[p]]

\* the subcode stream holds one record per slot, never shifted
read_sub(fs, entry_index) == read_entry(fs, 1, entry_index, 0, QZero)[0]
write_sub(fs, q, entry_index) == write_entry(fs, [i \in {0} |-> q], 1, entry_index, 0)

-----------------------------------------------------------------------------
(* inside_range: index of the first half-open range holding lba, 0 if none   *)

inside_range(l, ranges) ==
    LET S == {k \in 1..Len(ranges) : ranges[k][1] <= l /\ l < ranges[k][2]}
    IN  IF S = {} THEN 0 ELSE CHOOSE k \in S : \A j \in S : k <= j

-----------------------------------------------------------------------------
(* state_from_c2: one C2 nibble covers one sample                            *)

bits_count(x) ==
    (x % 2) + ((x \div 2) % 2) + ((x \div 4) % 2) + ((x \div 8) % 2)

\* faulty variant: the nibbles of a byte are taken in the other order
c2_quad_swapped(c2_data, i) ==
    IF i % 2 = 1 THEN c2_data[i \div 2] \div 16 ELSE c2_data[i \div 2] % 16

c2_quad(c2_data, i) ==
    IF i % 2 = 1 THEN c2_data[i \div 2] % 16 ELSE c2_data[i \div 2] \div 16

\* the state vector after the call
state_from_c2(state, c2_data) ==
    [i \in Samples |-> IF c2_quad(c2_data, i) # 0 THEN ERROR_C2 ELSE state[i]]

RECURSIVE c2_sum(_, _)
c2_sum(c2_data, n) ==
    IF n = 0 THEN 0 ELSE c2_sum(c2_data, n - 1) + bits_count(c2_quad(c2_data, n - 1))

\* the value the call returns
c2_count(c2_data) == c2_sum(c2_data, CD_DATA_SIZE_SAMPLES)

-----------------------------------------------------------------------------
(* Inputs: what the drive can answer                                         *)

C2Zero == [k \in 0..(CD_C2_SIZE - 1) |-> 0]

\* C2 planes the model's drive produces: clean, a bit of the high nibble of
\* the first byte, a bit of the low nibble of the last byte, every bit set
C2Inputs ==
    { C2Zero,
      [C2Zero EXCEPT ![0] = 16],
      [C2Zero EXCEPT ![CD_C2_SIZE - 1] = 1],
      [k \in 0..(CD_C2_SIZE - 1) |-> 255] }

\* Q of a sector delivered at LBA l: good, bad CRC, or desynced by one
QInputs(l) == {QGood(l), QBad, QGood(l + 1)}

\* a raw sector as read_sector or the LG/ASUS cache delivers it
SectorInputs(l) == [c2 : C2Inputs, q : QInputs(l)]

CleanSector(l) == [c2 |-> C2Zero, q |-> QGood(l)]

drive_is_asus(c) == c.type = "LG_ASUS"

\* last session last track end of the TOC
TocEnd(c) == c.sessions[Len(c.sessions)].lba_end

\* multisession gaps
TocErrorRanges(c) ==
    [i \in 1..(Len(c.sessions) - 1) |->
        << c.sessions[i].lba_end, c.sessions[i + 1].first + c.pregap_start >>]

\* LBAs where an unreadable sector is what the disc is expected to give
Unrecorded(c, l) ==
    inside_range(l, TocErrorRanges(c)) # 0 \/ l >= TocEnd(c) \/ l < c.pregap_start

-----------------------------------------------------------------------------
(* Scenarios: options, drive profile and TOC of a run                        *)

NoOpt == [set |-> FALSE, v |-> 0]
Opt(v) == [set |-> TRUE, v |-> v]

Base ==
    [ refine |-> FALSE, type |-> "GENERIC", asus_skip_leadout |-> FALSE,
      subcode |-> TRUE, pregap_start |-> 0, read_offset |-> 0,
      sessions |-> << [first |-> 0, lba_end |-> 3] >>,
      opt_lba_start |-> NoOpt, opt_lba_end |-> NoOpt, skip |-> << >>,
      refine_subchannel |-> FALSE, retries |-> 0,
      plextor_skip_leadin |-> TRUE,
      overwrite |-> FALSE, state_exists |-> FALSE, toc_match |-> TRUE,
      disc_end |-> 5, cache_max |-> 0, weak_q |-> FALSE, modes |-> << "dump" >> ]

TwoSessions == << [first |-> 0, lba_end |-> 2], [first |-> 4, lba_end |-> 5] >>

\* a gap wide enough for the lead-in of the second session
FarSessions == << [first |-> 0, lba_end |-> 1], [first |-> 5, lba_end |-> 6] >>

DumpScenarios ==
    { \* generic drive, lead-out overread until the drive fails
      [Base EXCEPT !.pregap_start = 0 - 1, !.read_offset = 1, !.disc_end = 4],
      \* CLI lba_end and a skip range
      [Base EXCEPT !.opt_lba_end = Opt(3), !.skip = << <<1, 2>> >>, !.read_offset = 0 - 1],
      \* drive without subchannel support
      [Base EXCEPT !.subcode = FALSE, !.sessions = << [first |-> 0, lba_end |-> 2] >>,
                   !.disc_end = 3],
      \* PLEXTOR, two sessions
      [Base EXCEPT !.type = "PLEXTOR", !.sessions = TwoSessions, !.pregap_start = 0 - 1,
                   !.opt_lba_start = Opt(1), !.disc_end = 6],
      \* LG/ASUS, lead-out from the cache
      [Base EXCEPT !.type = "LG_ASUS", !.sessions = << [first |-> 0, lba_end |-> 2] >>,
                   !.cache_max = 2, !.disc_end = 4],
      \* an image that already exists, with and without overwrite
      [Base EXCEPT !.state_exists = TRUE],
      [Base EXCEPT !.state_exists = TRUE, !.overwrite = TRUE,
                   !.sessions = << [first |-> 0, lba_end |-> 1] >>, !.disc_end = 1],
      \* a skip range that starts where the TOC ends
      [Base EXCEPT !.sessions = << [first |-> 0, lba_end |-> 2] >>,
                   !.skip = << <<2, 3>> >>, !.disc_end = 4],
      \* PLEXTOR with the lead-in capture
      [Base EXCEPT !.type = "PLEXTOR", !.sessions = FarSessions, !.pregap_start = 0 - 1,
                   !.plextor_skip_leadin = FALSE, !.opt_lba_start = Opt(4),
                   !.disc_end = 6],
      \* a disc with a damaged subchannel: runs of sectors with invalid Q
      [Base EXCEPT !.weak_q = TRUE, !.sessions = << [first |-> 0, lba_end |-> 8] >>,
                   !.opt_lba_end = Opt(8), !.disc_end = 8] }

JustRefine == [Base EXCEPT !.refine = TRUE, !.modes = << "refine" >>]

RefineScenarios ==
    { [JustRefine EXCEPT !.retries = 2, !.read_offset = 1, !.disc_end = 4],
      [JustRefine EXCEPT !.refine_subchannel = TRUE, !.skip = << <<1, 2>> >>,
                   !.opt_lba_end = Opt(3)],
      [JustRefine EXCEPT !.type = "PLEXTOR", !.sessions = TwoSessions,
                   !.pregap_start = 0 - 1, !.opt_lba_start = Opt(1), !.disc_end = 6],
      \* LG/ASUS: a skip range that ends where the inter-session gap starts
      [JustRefine EXCEPT !.type = "LG_ASUS", !.sessions = TwoSessions,
                   !.pregap_start = 0 - 1, !.opt_lba_start = Opt(0),
                   !.skip = << <<1, 2>> >>, !.cache_max = 1, !.disc_end = 6],
      \* a different disc in a PLEXTOR drive with the lead-in capture
      [JustRefine EXCEPT !.toc_match = FALSE, !.type = "PLEXTOR",
                         !.sessions = FarSessions, !.pregap_start = 0 - 1,
                         !.plextor_skip_leadin = FALSE, !.disc_end = 6],
      \* PLEXTOR with the lead-in capture
      [JustRefine EXCEPT !.type = "PLEXTOR", !.sessions = FarSessions,
                         !.pregap_start = 0 - 1, !.plextor_skip_leadin = FALSE,
                         !.opt_lba_start = Opt(5), !.disc_end = 6] }

\* command lines with several modes, on small discs
Tiny == [Base EXCEPT !.sessions = << [first |-> 0, lba_end |-> 1] >>, !.disc_end = 1]
Small == [Base EXCEPT !.sessions = << [first |-> 0, lba_end |-> 2] >>, !.disc_end = 2]

DriverScenarios ==
    { [Small EXCEPT !.modes = << "dump", "refine" >>],
      [Small EXCEPT !.refine = TRUE, !.modes = << "refine", "refine" >>],
      [Tiny EXCEPT !.refine = TRUE, !.modes = << "info", "refine" >>],
      [Tiny EXCEPT !.modes = << "dump", "refine", "info", "refine" >>],
      [Tiny EXCEPT !.modes = << "dump", "split", "dump" >>],
      [Tiny EXCEPT !.type = "LG_ASUS", !.modes = << "dump", "refine" >>],
      [Tiny EXCEPT !.type = "LG_ASUS", !.asus_skip_leadout = TRUE,
                   !.modes = << "dump", "refine" >>] }

Scenarios == DumpScenarios \cup RefineScenarios \cup DriverScenarios

-----------------------------------------------------------------------------
(* Streams a run can find on disk                                            *)

AllOf(s) == [i \in Samples |-> s]
FirstRest(a, b) == [i \in Samples |-> IF i = 0 THEN a ELSE b]

\* defective sectors an earlier dump, lead-in capture or refine can leave
Palette ==
    { [st |-> AllOf(ERROR_SKIP), qok |-> FALSE],
      [st |-> FirstRest(ERROR_C2, SUCCESS), qok |-> TRUE],
      [st |-> FirstRest(ERROR_SKIP, ERROR_C2), qok |-> FALSE],
      [st |-> AllOf(SUCCESS_C2_OFF), qok |-> TRUE],
      [st |-> FirstRest(SUCCESS_SCSI_OFF, ERROR_C2), qok |-> TRUE],
      [st |-> AllOf(SUCCESS), qok |-> FALSE] }

DefectLBAs(c) == {l \in LBAs : c.pregap_start <= l /\ l < c.disc_end}

\* a lone refine finds a file with fewer defects than the anomaly budget, so
\* that the drive can add one; a command line of several modes can start
\* with the budget spent
DefectMaps(c) ==
    LET most == IF Len(c.modes) > 1 THEN MaxFaults ELSE MaxFaults - 1
    IN  UNION {[D -> Palette] : D \in {E \in SUBSET DefectLBAs(c) : Cardinality(E) <= most}}

FileSectorState(c, d, l) ==
    IF l \in DOMAIN d THEN d[l].st
    ELSE IF l \in LBAs /\ ~Unrecorded(c, l) THEN AllOf(SUCCESS)
    ELSE AllOf(ERROR_SKIP)

FileQ(c, d, l) ==
    IF l \in DOMAIN d THEN (IF d[l].qok THEN QGood(l) ELSE QBad)
    ELSE IF l \in LBAs /\ ~Unrecorded(c, l) THEN QGood(l)
    ELSE QZero

\* the .state stream an earlier run of the same drive left
FileState(c, d) ==
    [p \in StreamDomain(CD_DATA_SIZE_SAMPLES) |->
        LET q == p - c.read_offset
        IN  FileSectorState(c, d, (q \div CD_DATA_SIZE_SAMPLES) + LBA_START)
                [q % CD_DATA_SIZE_SAMPLES]]

FileScm(c, d) ==
    [p \in StreamDomain(CD_DATA_SIZE_SAMPLES) |->
        IF FileState(c, d)[p] = ERROR_SKIP THEN 0 ELSE OldWord]

FileSub(c, d) ==
    [p \in StreamDomain(1) |-> FileQ(c, d, p + LBA_START)]

-----------------------------------------------------------------------------
(* Drive and cache answers, with the anomalies each one spends               *)

\* answers of read_sector at LBA l: a SCSI error, or a raw sector
ReadInputs(c, l) ==
    LET slows == IF c.type = "PLEXTOR" /\ inside_range(l, TocErrorRanges(c)) # 0
                 THEN BOOLEAN ELSE {FALSE}
    IN  IF c.weak_q /\ l < c.disc_end
        THEN \* a disc that reads without error, its Q good or bad in any sector
             {[ok |-> TRUE, slow |-> FALSE, c2 |-> C2Zero, q |-> x] :
                    x \in {QGood(l), QBad}}
        ELSE {[ok |-> FALSE, slow |-> sl, c2 |-> C2Zero, q |-> QZero] : sl \in slows}
             \cup
             (IF l < c.disc_end
              THEN {[ok |-> TRUE, slow |-> sl, c2 |-> x.c2, q |-> x.q] :
                         sl \in slows, x \in SectorInputs(l)}
              ELSE {})

\* anomalies of a delivered sector: C2 bits, and a Q that is not the good one
SectorCost(l, x) ==
    (IF x.c2 = C2Zero THEN 0 ELSE 1) + (IF x.q = QGood(l) THEN 0 ELSE 1)

ReadCost(c, l, out) ==
    IF out.ok
    THEN (IF c.weak_q THEN 0 ELSE SectorCost(l, out))
    ELSE (IF Unrecorded(c, l) \/ l >= c.disc_end THEN 0 ELSE 1)

\* tails asus_cache_extract can return for LBA l: entries of l, l + 1, ...
CacheInputs(c, l) ==
    UNION {{b \in [1..n -> UNION {SectorInputs(l + i) : i \in 0..c.cache_max}] :
                \A i \in 1..n : b[i] \in SectorInputs(l + i - 1)} : n \in 0..c.cache_max}

RECURSIVE CacheCost(_, _)
CacheCost(l, b) ==
    IF b = << >> THEN 0
    ELSE SectorCost(l, Head(b)) + CacheCost(l + 1, Tail(b))

-----------------------------------------------------------------------------
(* Refine prelude: the sweep of the state and subcode streams                *)

Swept(l, ls, le, sk, er) ==
    /\ ls <= l /\ l < le
    /\ inside_range(l, sk) = 0
    /\ inside_range(l, er) = 0

StoredState(fs, c, l) ==
    read_entry(fs, CD_DATA_SIZE_SAMPLES, l - LBA_START, c.read_offset, ERROR_SKIP)

Has(st, s) == \E i \in Samples : st[i] = s

prelude_scsi(fs, c, ls, le, sk, er) ==
    Cardinality({l \in LBAs : Swept(l, ls, le, sk, er) /\ Has(StoredState(fs, c, l), ERROR_SKIP)})

prelude_c2(fs, c, ls, le, sk, er) ==
    Cardinality({l \in LBAs : /\ Swept(l, ls, le, sk, er)
                               /\ ~Has(StoredState(fs, c, l), ERROR_SKIP)
                               /\ Has(StoredState(fs, c, l), ERROR_C2)})

prelude_q(fs, c, ls, le, sk, er) ==
    IF c.subcode
    THEN Cardinality({l \in LBAs : Swept(l, ls, le, sk, er)
                                     /\ ~read_sub(fs, l - LBA_START).valid})
    ELSE 0

prelude_count(fst, fsb, c, ls, le, sk, er) ==
    Cardinality({l \in LBAs :
        /\ Swept(l, ls, le, sk, er)
        /\ \/ Has(StoredState(fst, c, l), ERROR_SKIP)
           \/ Has(StoredState(fst, c, l), ERROR_C2)
           \/ c.subcode /\ c.refine_subchannel /\ ~read_sub(fsb, l - LBA_START).valid})

-----------------------------------------------------------------------------
(* Initial state and entry of redumper_dump                                  *)

NoSector == [i \in Samples |-> 0]

driver == << mode_ix, skip_refine, toc_file, state_file, ran, touched,
             leadin_buffers, prelude_log >>
cfgv == << cfg, lba_start, lba_end, error_ranges, skip_ranges, driver >>
streams == << fs_scm, fs_sub, fs_state >>
counters == << errors_scsi, errors_c2, errors_q, errors_q_last >>
refv == << lba_refine, refine_counter, refine_processed, refine_count >>
bufs == << sector_data, sector_subcode, sector_state, flush >>
hist == << reads, flushes, wrote, failed, c2seen, stopped, after_stop, thrown >>

\* the run starts from files of an earlier run: a refine, or a dump over an
\* existing image
FromFiles(c) == c.refine \/ c.state_exists

NoReads == [l \in LBAs |-> 0]
NoWrites == [l \in LBAs |-> {}]

\* no function outside the engine is being called
NoCall == [fn |-> "none"]

\* the engine before the first mode of one of the command lines of S
EngineInit(S) ==
    /\ cfg \in S
    /\ pc = "driver"
    /\ mode_ix = 1 /\ skip_refine = FALSE /\ ran = << >>
    /\ \E d \in (IF cfg.refine THEN DefectMaps(cfg) ELSE {<< >>}) :
        /\ faults = Cardinality(DOMAIN d)
        /\ IF FromFiles(cfg)
           THEN /\ fs_state = FileState(cfg, d)
                /\ fs_scm = FileScm(cfg, d)
                /\ fs_sub = FileSub(cfg, d)
           ELSE /\ fs_state = EmptyStream(CD_DATA_SIZE_SAMPLES, ERROR_SKIP)
                /\ fs_scm = EmptyStream(CD_DATA_SIZE_SAMPLES, 0)
                /\ fs_sub = EmptyStream(1, QZero)
    /\ state_file = FromFiles(cfg)
    /\ toc_file = IF ~FromFiles(cfg) THEN "none"
                  ELSE IF cfg.toc_match THEN "disc" ELSE "other"
    /\ touched = {} /\ leadin_buffers = << >> /\ prelude_log = << >>
    /\ lba_start = 0 /\ lba_end = 0 /\ error_ranges = << >> /\ skip_ranges = << >>
    /\ lba = 0 /\ lba_next = 0 /\ lba_overread = 0
    /\ errors_scsi = 0 /\ errors_c2 = 0 /\ errors_q = 0 /\ errors_q_last = 0
    /\ subcode_shift = 0
    /\ lba_refine = LBA_START - 1
    /\ refine_counter = 0 /\ refine_processed = 0 /\ refine_count = 0
    /\ asus_leadout_buffer = << >>
    /\ sector_data = NoSector /\ sector_subcode = QZero /\ sector_state = NoSector
    /\ flush = FALSE
    /\ engaged = FALSE /\ interrupt = FALSE
    /\ result = FALSE
    /\ reads = NoReads /\ flushes = {} /\ wrote = NoWrites
    /\ failed = {} /\ c2seen = {}
    /\ stopped = FALSE /\ after_stop = FALSE /\ thrown = FALSE

Init == EngineInit(Scenarios) /\ call = NoCall

-----------------------------------------------------------------------------
(* redumper(): the modes of the command line, in order                       *)

\* the loop body for the next positional argument
Driver ==
    /\ pc = "driver"
    /\ mode_ix <= Len(cfg.modes)
    /\ LET p == cfg.modes[mode_ix]
       IN  IF skip_refine /\ p = "refine"
           THEN \* skip refine mode if specified after dump mode and no errors
                /\ ran' = Append(ran, [mode |-> p, run |-> FALSE, ret |-> FALSE])
                /\ mode_ix' = mode_ix + 1
                /\ UNCHANGED << cfg, pc, touched, leadin_buffers, hist >>
           ELSE IF p \in {"dump", "refine"}
           THEN \* redumper_dump(options, p == "refine") is entered
                /\ ran' = Append(ran, [mode |-> p, run |-> TRUE, ret |-> FALSE])
                /\ cfg' = [cfg EXCEPT !.refine = (p = "refine")]
                /\ pc' = "start"
                /\ touched' = {} /\ leadin_buffers' = << >>
                /\ reads' = NoReads /\ flushes' = {} /\ wrote' = NoWrites
                /\ failed' = {} /\ c2seen' = {}
                /\ stopped' = FALSE /\ after_stop' = FALSE /\ thrown' = FALSE
                /\ UNCHANGED mode_ix
           ELSE \* protection, split, info, ...: no effect on the streams
                /\ ran' = Append(ran, [mode |-> p, run |-> TRUE, ret |-> FALSE])
                /\ mode_ix' = mode_ix + 1
                /\ UNCHANGED << cfg, pc, touched, leadin_buffers, hist >>
    /\ UNCHANGED << streams, lba_start, lba_end, error_ranges, skip_ranges, lba,
                    lba_next, lba_overread, counters, subcode_shift, refv,
                    asus_leadout_buffer, bufs, engaged, interrupt, result, faults,
                    skip_refine, toc_file, state_file, prelude_log >>
    /\ UNCHANGED call

\* faulty variant: a refine also updates skip_refine
skip_refine_after_any(refine, value, flag) == ~value

\* skip_refine after redumper_dump returned value
skip_refine_after(refine, value, flag) == IF ~refine THEN ~value ELSE flag

\* redumper_dump returns to the loop of redumper()
Return ==
    /\ pc = "done"
    /\ skip_refine' = skip_refine_after(cfg.refine, result, skip_refine)
    /\ ran' = [ran EXCEPT ![Len(ran)].ret = result]
    /\ mode_ix' = mode_ix + 1
    /\ pc' = "driver"
    /\ UNCHANGED << cfg, streams, lba_start, lba_end, error_ranges, skip_ranges, lba,
                    lba_next, lba_overread, counters, subcode_shift, refv,
                    asus_leadout_buffer, bufs, engaged, interrupt, result, faults,
                    hist, toc_file, state_file, touched, leadin_buffers, prelude_log >>
    /\ UNCHANGED call

-----------------------------------------------------------------------------
(* Entry of redumper_dump: files, TOC                                        *)

\* faulty variant: an existing image never stops a dump
dump_exists_never(c, exists) == FALSE

\* "dump already exists"
dump_exists(c, exists) == ~c.refine /\ ~c.overwrite /\ exists

\* "disc / file TOC don't match": toc_buffer != toc_buffer_file
toc_mismatch(c, file) == c.refine /\ file # "disc"

\* the throw_line conditions met before the loop
FatalBeforeLoop(c) == dump_exists(c, state_file) \/ toc_mismatch(c, toc_file)

\* "dump already exists": thrown before any file is opened
FatalError ==
    /\ pc = "start"
    /\ dump_exists(cfg, state_file)
    /\ pc' = "failed"
    /\ UNCHANGED << cfgv, streams, lba, lba_next, lba_overread, counters, subcode_shift,
                    refv, asus_leadout_buffer, bufs, engaged, interrupt, result, faults,
                    hist >>
    /\ UNCHANGED call

\* faulty variant: the streams are truncated in refine too
open_trunc_always(refine) == TRUE

\* std::fstream::trunc is part of the open mode
open_trunc(refine) == ~refine

\* the three streams are opened: read-write in refine, truncated in dump
Open ==
    /\ pc = "start"
    /\ ~dump_exists(cfg, state_file)
    /\ IF open_trunc(cfg.refine)
       THEN /\ fs_scm' = EmptyStream(CD_DATA_SIZE_SAMPLES, 0)
            /\ fs_sub' = IF cfg.subcode THEN EmptyStream(1, QZero) ELSE fs_sub
            /\ fs_state' = EmptyStream(CD_DATA_SIZE_SAMPLES, ERROR_SKIP)
            /\ touched' = {"scm", "state"} \cup (IF cfg.subcode THEN {"sub"} ELSE {})
            /\ state_file' = TRUE
       ELSE UNCHANGED << streams, touched, state_file >>
    /\ pc' = "opened"
    /\ UNCHANGED << cfg, lba_start, lba_end, error_ranges, skip_ranges, lba, lba_next,
                    lba_overread, counters, subcode_shift, refv, asus_leadout_buffer,
                    bufs, engaged, interrupt, result, faults, hist, mode_ix,
                    skip_refine, toc_file, ran, leadin_buffers, prelude_log >>
    /\ UNCHANGED call

\* "disc / file TOC don't match, refining from a different disc?"
TocMismatch ==
    /\ pc = "opened"
    /\ toc_mismatch(cfg, toc_file)
    /\ pc' = "failed"
    /\ UNCHANGED << cfgv, streams, lba, lba_next, lba_overread, counters, subcode_shift,
                    refv, asus_leadout_buffer, bufs, engaged, interrupt, result, faults,
                    hist >>
    /\ UNCHANGED call

\* the .toc file after the comparison (refine) or the store (dump)
store_toc(refine, file) == IF refine THEN file ELSE "disc"

plextor_leadin(c) == c.type = "PLEXTOR" /\ ~c.plextor_skip_leadin

\* the TOC is compared with the file (refine) or stored (dump)
Toc ==
    /\ pc = "opened"
    /\ ~toc_mismatch(cfg, toc_file)
    /\ toc_file' = store_toc(cfg.refine, toc_file)
    /\ touched' = IF toc_file' # toc_file \/ ~cfg.refine THEN touched \cup {"toc"}
                  ELSE touched
    /\ pc' = IF plextor_leadin(cfg) THEN "leadin" ELSE "prelude"
    /\ UNCHANGED << cfg, streams, lba_start, lba_end, error_ranges, skip_ranges, lba,
                    lba_next, lba_overread, counters, subcode_shift, refv,
                    asus_leadout_buffer, bufs, engaged, interrupt, result, faults, hist,
                    mode_ix, skip_refine, state_file, ran, leadin_buffers, prelude_log >>
    /\ UNCHANGED call

-----------------------------------------------------------------------------
(* plextor_store_sessions_leadin                                             *)

MinOf(S) == CHOOSE x \in S : \A y \in S : x <= y
MaxOf(S) == CHOOSE x \in S : \A y \in S : x >= y

session_lba_start(c) ==
    [s \in 1..Len(c.sessions) |->
        (IF s > 1 THEN c.sessions[s].first ELSE 0) + MSF_LBA_SHIFT]

\* di.pregap_start - MSF_LBA_SHIFT: entries asked for, length of the window
pregap_count(c) == c.pregap_start - MSF_LBA_SHIFT

pregap_end(c, s) == session_lba_start(c)[s] + pregap_count(c)

\* the first session whose pre-gap window holds l, 0 if none
leadin_session(c, l) ==
    LET S == {s \in 1..Len(c.sessions) :
                session_lba_start(c)[s] <= l /\ l < pregap_end(c, s)}
    IN  IF S = {} THEN 0 ELSE MinOf(S)

\* the entry at which the backward walk finds a session, 0 if none
leadin_found(c, buf) ==
    LET J == {j \in 1..Len(buf) :
                /\ buf[j].ok /\ buf[j].q.valid /\ buf[j].q.pos
                /\ leadin_session(c, buf[j].q.lbaq) # 0}
    IN  IF J = {} THEN 0 ELSE MaxOf(J)

\* leadin_buffers after one plextor_read_leadin that returned buf
leadin_attempt(c, buffers, buf) ==
    LET j == leadin_found(c, buf)
    IN  IF Len(buf) < U32(pregap_count(c)) \/ j = 0 THEN buffers
        ELSE LET lbaq == buf[j].q.lbaq
                 s == leadin_session(c, lbaq)
                 trim_count == U32(j - 1 + pregap_end(c, s) - lbaq)
             IN  IF trim_count > Len(buf) THEN buffers
                 ELSE IF Len(buffers[s]) < trim_count
                 THEN [buffers EXCEPT ![s] = SubSeq(buf, 1, trim_count)]
                 ELSE buffers

RECURSIVE leadin_read(_, _, _, _)
leadin_read(c, buffers, attempts, i) ==
    IF i > Len(attempts) THEN buffers
    ELSE CHOOSE r \in {leadin_read(c, b, attempts, i + 1) :
                          b \in {leadin_attempt(c, buffers, attempts[i])}} : TRUE

\* "PX-760A: strip invalid entries from lead-in start"
leadin_strip(buf) ==
    LET V == {i \in 1..Len(buf) : buf[i].q.valid}
    IN  IF V = {} THEN buf ELSE SubSeq(buf, MinOf(V), Len(buf))

\* faulty variant: a lead-in sector is never taken
leadin_update_never(st) == FALSE

\* "new data is improved": some sample of the stored sector is below
\* SUCCESS_C2_OFF
leadin_update(st) == \E i \in Samples : st[i] < SUCCESS_C2_OFF

\* the streams after the store of entry e at LBA l
leadin_store_entry(fs, c, l, e) ==
    IF ~e.ok THEN fs
    ELSE LET upd == leadin_update(StoredState(fs.state, c, l))
             q_file == read_sub(fs.sub, l - LBA_START)
         IN  [scm |-> IF upd
                      THEN write_entry(fs.scm, AllOf(LeadinWord), CD_DATA_SIZE_SAMPLES,
                                       l - LBA_START, c.read_offset)
                      ELSE fs.scm,
              state |-> IF upd
                        THEN write_entry(fs.state, AllOf(SUCCESS_C2_OFF),
                                         CD_DATA_SIZE_SAMPLES, l - LBA_START, c.read_offset)
                        ELSE fs.state,
              sub |-> IF c.subcode /\ ~q_file.valid
                      THEN write_sub(fs.sub, e.q, l - LBA_START)
                      ELSE fs.sub]

\* the LBA entry k of the buffer of session s is stored at
leadin_lba(c, s, n, k) == pregap_end(c, s) - (n - k + 1)

RECURSIVE leadin_store_buffer(_, _, _, _, _)
leadin_store_buffer(fs, c, s, buf, k) ==
    IF k > Len(buf) THEN fs
    ELSE CHOOSE r \in {leadin_store_buffer(f, c, s, buf, k + 1) :
                          f \in {leadin_store_entry(fs, c, leadin_lba(c, s, Len(buf), k),
                                                    buf[k])}} : TRUE

RECURSIVE leadin_store(_, _, _, _)
leadin_store(fs, c, buffers, s) ==
    IF s > Len(buffers) THEN fs
    ELSE CHOOSE r \in {leadin_store(f, c, buffers, s + 1) :
                          f \in {leadin_store_buffer(fs, c, s, buffers[s], 1)}} : TRUE

\* what plextor_read_leadin can return: consecutive sectors from LBA a on,
\* TOC entries in Q before the pre-gap of session s, positions from it on
LeadinBuf(c, s, a, n) ==
    [k \in 1..n |->
        [ok |-> TRUE,
         q |-> IF a + k - 1 >= session_lba_start(c)[s] THEN QGood(a + k - 1) ELSE QToc]]

LeadinClean(c, s) ==
    LET e == pregap_end(c, s)
    IN  { << >>, LeadinBuf(c, s, e - 3, 3), LeadinBuf(c, s, e - 2, 2),
          LeadinBuf(c, s, e - 1, 1), LeadinBuf(c, s, e - 2, 3), LeadinBuf(c, s, e - 3, 2) }

\* one entry with a SCSI error status, or with a bad Q
LeadinFaulty(c, s) ==
    LET b == LeadinBuf(c, s, pregap_end(c, s) - 3, 3)
    IN  {[b EXCEPT ![k].ok = FALSE] : k \in 1..3} \cup {[b EXCEPT ![k].q = QBad] : k \in 1..3}

\* one buffer per attempt; the drive decides which session it belongs to
LeadinInputs(c) ==
    LET last == Len(c.sessions)
    IN  [1..last -> LeadinClean(c, last) \cup LeadinFaulty(c, last)
                        \cup {LeadinBuf(c, 1, pregap_end(c, 1) - 1, 1)}]

LeadinCost(c, attempts) ==
    Cardinality({i \in DOMAIN attempts : attempts[i] \in LeadinFaulty(c, Len(c.sessions))})

\* "read lead-in early": the capture and its commit to the streams
LeadIn ==
    /\ pc = "leadin"
    /\ \E attempts \in LeadinInputs(cfg) :
        /\ faults + LeadinCost(cfg, attempts) <= MaxFaults
        /\ \E read \in {leadin_read(cfg, [s \in 1..Len(cfg.sessions) |-> << >>], attempts, 1)} :
           \E kept \in {[s \in DOMAIN read |-> leadin_strip(read[s])]} :
           \E fs \in {leadin_store([scm |-> fs_scm, sub |-> fs_sub, state |-> fs_state],
                                   cfg, kept, 1)} :
            /\ faults' = faults + LeadinCost(cfg, attempts)
            /\ leadin_buffers' = kept
            /\ fs_scm' = fs.scm /\ fs_sub' = fs.sub /\ fs_state' = fs.state
            /\ touched' = touched \cup (IF fs.scm # fs_scm THEN {"scm"} ELSE {})
                                  \cup (IF fs.sub # fs_sub THEN {"sub"} ELSE {})
                                  \cup (IF fs.state # fs_state THEN {"state"} ELSE {})
    /\ pc' = "prelude"
    /\ UNCHANGED << cfg, lba_start, lba_end, error_ranges, skip_ranges, lba, lba_next,
                    lba_overread, counters, subcode_shift, refv, asus_leadout_buffer,
                    bufs, engaged, interrupt, result, hist, mode_ix, skip_refine,
                    toc_file, state_file, ran, prelude_log >>
    /\ UNCHANGED call

-----------------------------------------------------------------------------
(* Entry of redumper_dump: ranges, prelude, latch                            *)

\* faulty variant: the end of the last track is taken whatever it is
toc_lba_end_never_fake(c) == TocEnd(c)

\* lba_end before and after the CLI override
toc_lba_end(c) == IF TocEnd(c) < 0 THEN LBA_74MIN ELSE TocEnd(c)
\* faulty variant: without --lba-start the dump starts at LBA 0
cli_lba_start_zero(c) == IF c.opt_lba_start.set THEN c.opt_lba_start.v ELSE 0

cli_lba_start(c) == IF c.opt_lba_start.set THEN c.opt_lba_start.v ELSE c.pregap_start
cli_lba_end(c) == IF c.opt_lba_end.set THEN c.opt_lba_end.v ELSE toc_lba_end(c)

\* Signal::GetInstance().Engage(): the latch is engaged
Engage == TRUE

\* faulty variant: Disengage is called only where the function returns
signal_guard_return_only(how) == how # "return"

\* signal_guard: its deleter runs Disengage when the scope is left, by the
\* return at the end of the function or by an exception unwinding it
signal_guard(how) == FALSE

\* the CLI overrides, the refine prelude and everything up to the first
\* evaluation of the loop condition
Start ==
    /\ pc = "prelude"
    /\ lba_start' = cli_lba_start(cfg)
    /\ lba_end' = cli_lba_end(cfg)
    /\ error_ranges' = TocErrorRanges(cfg)
    /\ skip_ranges' = cfg.skip
    /\ IF cfg.refine
       THEN /\ errors_scsi' = prelude_scsi(fs_state, cfg, lba_start', lba_end', skip_ranges', error_ranges')
            /\ errors_c2' = prelude_c2(fs_state, cfg, lba_start', lba_end', skip_ranges', error_ranges')
            /\ errors_q' = prelude_q(fs_sub, cfg, lba_start', lba_end', skip_ranges', error_ranges')
            /\ refine_count' = prelude_count(fs_state, fs_sub, cfg, lba_start', lba_end',
                                             skip_ranges', error_ranges')
       ELSE /\ errors_scsi' = 0 /\ errors_c2' = 0 /\ errors_q' = 0
            /\ refine_count' = 0
    /\ prelude_log' = IF cfg.refine
                       THEN Append(prelude_log, [scsi |-> errors_scsi', c2 |-> errors_c2',
                                                 q |-> errors_q', count |-> refine_count'])
                       ELSE prelude_log
    /\ errors_q_last' = errors_q'
    /\ subcode_shift' = 0
    /\ lba_refine' = LBA_START - 1
    /\ refine_counter' = 0 /\ refine_processed' = 0
    /\ engaged' = Engage
    /\ interrupt' = FALSE
    /\ lba_next' = 0
    /\ lba_overread' = lba_end'
    /\ lba' = lba_start'
    /\ pc' = "loop"
    /\ UNCHANGED << cfg, streams, asus_leadout_buffer, bufs, result, faults, hist,
                    mode_ix, skip_refine, toc_file, state_file, ran, touched,
                    leadin_buffers >>
    /\ UNCHANGED call

-----------------------------------------------------------------------------
(* The per-LBA loop                                                          *)

lba_index == lba - LBA_START

asus_path == drive_is_asus(cfg) /\ ~cfg.asus_skip_leadout

refine_retries == IF cfg.retries # 0 THEN cfg.retries ELSE 1

\* a sector outside every error range and below lba_end counts in the totals
counted(l) == inside_range(l, error_ranges) = 0 /\ l < lba_end

\* faulty variant: any sector that is not stored ends the loop
no_store_tail_stop(over, next) == << lba, next >>

\* faulty variant: a read that fails never cuts the overread
no_store_tail_keep(over, next) == << over, next >>

\* the else branch of "if(store)": nothing was stored at lba
\* << lba_overread, lba_next >> after it
no_store_tail(over, next) ==
    LET r == inside_range(lba, error_ranges)
    IN  IF lba + 1 = over THEN << lba, next >>
        ELSE IF r # 0 THEN << over, error_ranges[r][2] >>
        ELSE << over, next >>

\* faulty variant: the overread grows under a CLI lba_end too
grow_overread_always(over) == IF lba + 1 = over THEN over + 1 ELSE over

\* grow lead-out overread if we still can read
grow_overread(over) ==
    IF lba + 1 = over /\ ~cfg.opt_lba_end.set THEN over + 1 ELSE over

\* scan of the stored state that selects a sector for refining: the scan
\* stops at the first ERROR_SKIP sample
scan_skip_exists(st) == Has(st, ERROR_SKIP)

\* faulty variant: every sample below SUCCESS asks for a re-read
scan_c2_exists_below_success(st) == \E i \in Samples : st[i] < SUCCESS

scan_c2_exists(st) ==
    \E i \in Samples : st[i] = ERROR_C2 /\ \A j \in 0..(i - 1) : st[j] # ERROR_SKIP

\* faulty variant: Q errors also ask for a refine
return_value_q(scsi, c2, q) == scsi # 0 \/ c2 # 0 \/ q # 0 \/ asus_path

\* "always refine once if LG/ASUS": the value redumper_dump returns
return_value(scsi, c2, q) == scsi # 0 \/ c2 # 0 \/ asus_path

\* the loop condition fails: the function returns
LoopExit ==
    /\ pc = "loop"
    /\ ~(lba < lba_overread)
    /\ engaged' = signal_guard("return")
    /\ result' = return_value(errors_scsi, errors_c2, errors_q)
    /\ pc' = "done"
    /\ UNCHANGED << cfgv, streams, lba, lba_next, lba_overread, counters, subcode_shift,
                    refv, asus_leadout_buffer, bufs, interrupt, faults, hist >>
    /\ UNCHANGED call

\* lba is inside a skip range: continue at the end of the range
IterSkip ==
    /\ pc = "loop"
    /\ lba < lba_overread
    /\ inside_range(lba, skip_ranges) # 0
    /\ lba_next' = skip_ranges[inside_range(lba, skip_ranges)][2]
    /\ lba' = lba_next'
    /\ UNCHANGED << cfgv, pc, streams, lba_overread, counters, subcode_shift, refv,
                    asus_leadout_buffer, bufs, engaged, interrupt, result, faults, hist >>
    /\ UNCHANGED call

\* faulty variant: a cache entry counts as a sector the drive read
cache_sector_state_success(c2) == state_from_c2(AllOf(SUCCESS), c2)

\* sector_state of a sector taken from the LG/ASUS cache
cache_sector_state(c2) == state_from_c2(AllOf(SUCCESS_SCSI_OFF), c2)

\* the LG/ASUS lead-out cache and the selection of a sector for refining,
\* up to the point where read_sector is or is not called
IterBegin ==
    /\ pc = "loop"
    /\ lba < lba_overread
    /\ lba \in LBAs   \* the iterations past the model are BeyondRead's
    /\ inside_range(lba, skip_ranges) = 0
    /\ LET r == inside_range(lba, error_ranges)
           first == IF r = 0 THEN lba_end ELSE error_ranges[r][1]
           extract == asus_path /\ ((r # 0 /\ lba = first) \/ lba = lba_end)
           inlead == asus_path /\ ((r # 0 /\ lba >= first) \/ lba >= lba_end)
       IN  \E cache \in (IF extract THEN CacheInputs(cfg, lba) ELSE {asus_leadout_buffer}) :
           LET cost == IF extract THEN CacheCost(lba, cache) ELSE 0
               leadout_index == lba - first
               fromcache == inlead /\ leadout_index < Len(cache)
               st == StoredState(fs_state, cfg, lba)
               c2_exists == scan_c2_exists(st)
               skip_exists == scan_skip_exists(st)
               read1 == c2_exists \/ skip_exists
               read2 == \/ read1
                        \/ /\ cfg.refine_subchannel /\ cfg.subcode
                           /\ ~read_sub(fs_sub, lba_index + subcode_shift).valid
               again == read2 /\ lba_refine = lba
               exhausted == again /\ ~(refine_counter + 1 < refine_retries)
               read == read2 /\ ~exhausted
               next == IF read2 /\ ~exhausted THEN lba ELSE lba + 1
           IN  /\ faults + cost <= MaxFaults
               /\ faults' = faults + cost
               /\ asus_leadout_buffer' = cache
               /\ reads' = IF extract /\ cfg.refine
                           THEN [reads EXCEPT ![lba - 1] = @ + 1] ELSE reads
               /\ after_stop' = (after_stop \/ (stopped /\ extract))
               /\ IF fromcache
                  THEN \* the sector is synthesized from the cache
                       LET entry == cache[leadout_index + 1]
                       IN  /\ sector_data' = AllOf(NewWord(0))
                           /\ sector_subcode' = entry.q
                           /\ sector_state' = cache_sector_state(entry.c2)
                           /\ errors_c2' = IF c2_count(entry.c2) # 0 /\ ~cfg.refine
                                           THEN U32(errors_c2 + 1) ELSE errors_c2
                           /\ c2seen' = IF c2_count(entry.c2) # 0
                                        THEN c2seen \cup {lba} ELSE c2seen
                           /\ lba_next' = lba + 1
                           /\ pc' = "store"
                           /\ UNCHANGED << flush, refv, lba_overread >>
                  ELSE IF cfg.refine
                  THEN /\ flush' = c2_exists
                       /\ lba_refine' = IF read2 /\ ~again THEN lba ELSE lba_refine
                       /\ refine_counter' =
                            IF again THEN (IF exhausted THEN 0 ELSE refine_counter + 1)
                            ELSE IF ~read2 /\ lba_refine = lba THEN 0
                            ELSE refine_counter
                       /\ refine_processed' =
                            IF exhausted \/ (~read2 /\ lba_refine = lba)
                            THEN refine_processed + 1 ELSE refine_processed
                       /\ IF read
                          THEN /\ lba_next' = next
                               /\ pc' = "read"
                               /\ UNCHANGED lba_overread
                          ELSE /\ lba_overread' = no_store_tail(lba_overread, next)[1]
                               /\ lba_next' = no_store_tail(lba_overread, next)[2]
                               /\ pc' = "poll"
                       /\ UNCHANGED << sector_data, sector_subcode, sector_state,
                                       errors_c2, c2seen, refine_count >>
                  ELSE /\ lba_next' = lba + 1
                       /\ pc' = "read"
                       /\ UNCHANGED << bufs, refv, errors_c2, c2seen, lba_overread >>
    /\ UNCHANGED << cfgv, streams, lba, errors_scsi, errors_q, errors_q_last,
                    subcode_shift, engaged, interrupt, result, flushes, wrote, failed,
                    stopped, thrown >>
    /\ UNCHANGED call


\* "PLEXTOR: multisession lead-out overread": a slow sector between sessions
plextor_slow(out) ==
    cfg.type = "PLEXTOR" /\ out.slow /\ inside_range(lba, error_ranges) # 0

\* faulty variant: the SCSI error is counted wherever it happens
scsi_error_everywhere(n) == IF ~cfg.refine THEN U32(n + 1) ELSE n

\* errors_scsi after a read that ended with a SCSI error
scsi_error(n) ==
    IF inside_range(lba, error_ranges) = 0 /\ lba < lba_end
    THEN (IF ~cfg.refine THEN U32(n + 1) ELSE n)
    ELSE n

\* errors_c2 after a read that delivered C2 bits
c2_error(n) == IF ~cfg.refine THEN U32(n + 1) ELSE n

\* cmd_flush_drive_cache (when flush is set) and read_sector at lba, then the
\* classification of the answer
ReadSector ==
    /\ pc = "read"
    /\ \E out \in ReadInputs(cfg, lba) :
        /\ faults + ReadCost(cfg, lba, out) <= MaxFaults
        /\ faults' = faults + ReadCost(cfg, lba, out)
        /\ flushes' = IF flush THEN flushes \cup {lba} ELSE flushes
        /\ reads' = [reads EXCEPT ![lba] = @ + 1]
        /\ failed' = IF ~out.ok THEN failed \cup {lba} ELSE failed
        /\ after_stop' = (after_stop \/ stopped)
        /\ IF plextor_slow(out) \/ ~out.ok
           THEN /\ errors_scsi' = IF plextor_slow(out) THEN errors_scsi
                                   ELSE scsi_error(errors_scsi)
                /\ lba_overread' = no_store_tail(lba_overread, lba_next)[1]
                /\ lba_next' = no_store_tail(lba_overread, lba_next)[2]
                /\ pc' = "poll"
                /\ UNCHANGED << sector_data, sector_subcode, sector_state, errors_c2, c2seen >>
           ELSE /\ sector_data' = AllOf(NewWord(refine_counter))
                /\ sector_subcode' = out.q
                /\ sector_state' = state_from_c2(AllOf(SUCCESS), out.c2)
                /\ errors_c2' = IF c2_count(out.c2) # 0 THEN c2_error(errors_c2)
                                 ELSE errors_c2
                /\ c2seen' = IF c2_count(out.c2) # 0 THEN c2seen \cup {lba} ELSE c2seen
                /\ pc' = "store"
                /\ UNCHANGED << errors_scsi, lba_overread, lba_next >>
    /\ UNCHANGED << cfgv, streams, lba, errors_q, errors_q_last, subcode_shift, refv,
                    asus_leadout_buffer, flush, engaged, interrupt, result, wrote,
                    stopped, thrown >>
    /\ UNCHANGED call

\* the allocation of sector_buffer fails: the exception unwinds the function
Throw ==
    /\ pc = "read"
    /\ thrown' = TRUE
    /\ engaged' = signal_guard("exception")
    /\ pc' = "thrown"
    /\ UNCHANGED << cfgv, streams, lba, lba_next, lba_overread, counters, subcode_shift,
                    refv, asus_leadout_buffer, bufs, interrupt, result, faults, reads,
                    flushes, wrote, failed, c2seen, stopped, after_stop >>
    /\ UNCHANGED call

\* faulty variant: a desync of the subchannel is never followed
desync_never(shift) == shift

\* "some drives desync at a random sector": subcode_shift after the check
desync(shift) ==
    IF cfg.subcode /\ sector_subcode.valid /\ sector_subcode.pos
    THEN sector_subcode.lbaq - lba
    ELSE shift

Wrote(what) == [wrote EXCEPT ![lba] = @ \cup {what}]

-----------------------------------------------------------------------------
(* Store, dump path                                                          *)

\* faulty variant: the latch is polled between the writes of a sector
dump_after_data_polled ==
    IF interrupt THEN "poll" ELSE IF cfg.subcode THEN "dsub" ELSE "dstate"

\* what follows the write of the data record: the subcode record, if the
\* drive delivers subcode, then the state record
dump_after_data == IF cfg.subcode THEN "dsub" ELSE "dstate"

DumpWriteData ==
    /\ pc = "store"
    /\ ~cfg.refine
    /\ subcode_shift' = desync(subcode_shift)
    /\ fs_scm' = write_entry(fs_scm, sector_data, CD_DATA_SIZE_SAMPLES, lba_index,
                             cfg.read_offset)
    /\ wrote' = Wrote("data")
    /\ after_stop' = (after_stop \/ stopped)
    /\ pc' = dump_after_data
    /\ UNCHANGED << cfgv, fs_sub, fs_state, lba, lba_next, lba_overread, counters, refv,
                    asus_leadout_buffer, bufs, engaged, interrupt, result, faults, reads,
                    flushes, failed, c2seen, stopped, thrown >>
    /\ UNCHANGED call

\* the subcode record and the Q error accounting
DumpWriteSub ==
    /\ pc = "dsub"
    /\ fs_sub' = write_sub(fs_sub, sector_subcode, lba_index + subcode_shift)
    /\ wrote' = Wrote("sub")
    /\ IF sector_subcode.valid
       THEN /\ errors_q_last' = errors_q
            /\ UNCHANGED << errors_q, flushes >>
       ELSE /\ flushes' = IF U32(errors_q - errors_q_last) > 5
                          THEN flushes \cup {lba} ELSE flushes
            /\ errors_q_last' = IF U32(errors_q - errors_q_last) > 5
                                THEN errors_q ELSE errors_q_last
            /\ errors_q' = U32(errors_q + 1)
    /\ after_stop' = (after_stop \/ stopped)
    /\ pc' = "dstate"
    /\ UNCHANGED << cfgv, fs_scm, fs_state, lba, lba_next, lba_overread, errors_scsi,
                    errors_c2, subcode_shift, refv, asus_leadout_buffer, bufs, engaged,
                    interrupt, result, faults, reads, failed, c2seen, stopped, thrown >>
    /\ UNCHANGED call

DumpWriteState ==
    /\ pc = "dstate"
    /\ fs_state' = write_entry(fs_state, sector_state, CD_DATA_SIZE_SAMPLES, lba_index,
                               cfg.read_offset)
    /\ wrote' = Wrote("state")
    /\ lba_overread' = grow_overread(lba_overread)
    /\ after_stop' = (after_stop \/ stopped)
    /\ pc' = "poll"
    /\ UNCHANGED << cfgv, fs_scm, fs_sub, lba, lba_next, counters, subcode_shift, refv,
                    asus_leadout_buffer, bufs, engaged, interrupt, result, faults, reads,
                    flushes, failed, c2seen, stopped, thrown >>
    /\ UNCHANGED call

-----------------------------------------------------------------------------
(* Store, refine path: the merge with the stored sector                      *)

\* faulty variant: the new state always wins
merge_state_take_new(new, file) == new

\* state and data of sample i after the merge loop
merge_state(new, file) == [i \in Samples |-> IF file[i] > new[i] THEN file[i] ELSE new[i]]
\* faulty variant: on equal states the stored word is kept
merge_data_ties_file(new, file, new_data, file_data) ==
    [i \in Samples |-> IF file[i] >= new[i] THEN file_data[i] ELSE new_data[i]]

\* faulty variant: the stored word is always kept
merge_data_keep_file(new, file, new_data, file_data) == file_data

merge_data(new, file, new_data, file_data) ==
    [i \in Samples |-> IF file[i] > new[i] THEN file_data[i] ELSE new_data[i]]

\* faulty variant: an equal state counts as an improvement
merge_update_ties(new, file) == \E i \in Samples : new[i] >= file[i]

\* new data is improved
merge_update(new, file) == \E i \in Samples : new[i] > file[i]

StoredData(fs, c, l) ==
    read_entry(fs, CD_DATA_SIZE_SAMPLES, l - LBA_START, c.read_offset, 0)

\* the merge loop and, if any sample improved, the write of the data record
RefineMerge ==
    /\ pc = "store"
    /\ cfg.refine
    /\ subcode_shift' = desync(subcode_shift)
    /\ LET file == StoredState(fs_state, cfg, lba)
           file_data == StoredData(fs_scm, cfg, lba)
           update == merge_update(sector_state, file)
       IN  /\ sector_state' = merge_state(sector_state, file)
           /\ sector_data' = merge_data(sector_state, file, sector_data, file_data)
           /\ IF update
              THEN /\ fs_scm' = write_entry(fs_scm, sector_data', CD_DATA_SIZE_SAMPLES,
                                            lba_index, cfg.read_offset)
                   /\ wrote' = Wrote("data")
                   /\ after_stop' = (after_stop \/ stopped)
                   /\ pc' = "rstate"
                   /\ UNCHANGED lba_overread
              ELSE /\ pc' = IF cfg.subcode THEN "rsub" ELSE "poll"
                   /\ lba_overread' = IF cfg.subcode THEN lba_overread
                                      ELSE grow_overread(lba_overread)
                   /\ UNCHANGED << fs_scm, wrote, after_stop >>
    /\ UNCHANGED << cfgv, fs_sub, fs_state, lba, lba_next, counters, refv,
                    asus_leadout_buffer, sector_subcode, flush, engaged, interrupt,
                    result, faults, reads, flushes, failed, c2seen, stopped, thrown >>
    /\ UNCHANGED call

\* faulty variant: the counters follow sectors the prelude never counted
refine_counters_unguarded(file, merged, scsi, c2) ==
    IF Has(file, ERROR_SKIP) /\ ~Has(merged, ERROR_SKIP)
    THEN << U32(scsi - 1), IF Has(merged, ERROR_C2) THEN U32(c2 + 1) ELSE c2 >>
    ELSE IF Has(file, ERROR_C2) /\ ~Has(merged, ERROR_C2)
         THEN << scsi, U32(c2 - 1) >>
         ELSE << scsi, c2 >>

\* faulty variant: a sector cleared of ERROR_C2 stays counted
refine_counters_keep_c2(file, merged, scsi, c2) ==
    IF inside_range(lba, error_ranges) = 0 /\ lba < lba_end
    THEN IF Has(file, ERROR_SKIP) /\ ~Has(merged, ERROR_SKIP)
         THEN << U32(scsi - 1), IF Has(merged, ERROR_C2) THEN U32(c2 + 1) ELSE c2 >>
         ELSE << scsi, c2 >>
    ELSE << scsi, c2 >>

\* faulty variant: a sector that trades ERROR_SKIP for ERROR_C2 is not counted
refine_counters_no_c2_gain(file, merged, scsi, c2) ==
    IF inside_range(lba, error_ranges) = 0 /\ lba < lba_end
    THEN IF Has(file, ERROR_SKIP) /\ ~Has(merged, ERROR_SKIP)
         THEN << U32(scsi - 1), c2 >>
         ELSE IF Has(file, ERROR_C2) /\ ~Has(merged, ERROR_C2)
              THEN << scsi, U32(c2 - 1) >>
              ELSE << scsi, c2 >>
    ELSE << scsi, c2 >>

\* << errors_scsi, errors_c2 >> after the write-back of an improved sector
refine_counters(file, merged, scsi, c2) ==
    IF inside_range(lba, error_ranges) = 0 /\ lba < lba_end
    THEN IF Has(file, ERROR_SKIP) /\ ~Has(merged, ERROR_SKIP)
         THEN << U32(scsi - 1), IF Has(merged, ERROR_C2) THEN U32(c2 + 1) ELSE c2 >>
         ELSE IF Has(file, ERROR_C2) /\ ~Has(merged, ERROR_C2)
              THEN << scsi, U32(c2 - 1) >>
              ELSE << scsi, c2 >>
    ELSE << scsi, c2 >>

\* the write of the state record of an improved sector
RefineWriteState ==
    /\ pc = "rstate"
    /\ LET file == StoredState(fs_state, cfg, lba)
       IN  /\ errors_scsi' = refine_counters(file, sector_state, errors_scsi, errors_c2)[1]
           /\ errors_c2' = refine_counters(file, sector_state, errors_scsi, errors_c2)[2]
    /\ fs_state' = write_entry(fs_state, sector_state, CD_DATA_SIZE_SAMPLES, lba_index,
                               cfg.read_offset)
    /\ wrote' = Wrote("state")
    /\ after_stop' = (after_stop \/ stopped)
    /\ pc' = IF cfg.subcode THEN "rsub" ELSE "poll"
    /\ lba_overread' = IF cfg.subcode THEN lba_overread ELSE grow_overread(lba_overread)
    /\ UNCHANGED << cfgv, fs_scm, fs_sub, lba, lba_next, errors_q, errors_q_last,
                    subcode_shift, refv, asus_leadout_buffer, bufs, engaged, interrupt,
                    result, faults, reads, flushes, failed, c2seen, stopped, thrown >>
    /\ UNCHANGED call

\* faulty variant: a Q that is fixed counts wherever the sector is
q_fixed_everywhere(n) == U32(n - 1)

\* errors_q after an invalid stored Q was replaced
q_fixed(n) == IF inside_range(lba, error_ranges) = 0 THEN U32(n - 1) ELSE n

\* subcode refine: a valid new Q replaces an invalid stored Q
RefineSub ==
    /\ pc = "rsub"
    /\ LET q_file == read_sub(fs_sub, lba_index + subcode_shift)
       IN  IF sector_subcode.valid /\ ~q_file.valid
           THEN /\ fs_sub' = write_sub(fs_sub, sector_subcode, lba_index + subcode_shift)
                /\ wrote' = Wrote("sub")
                /\ after_stop' = (after_stop \/ stopped)
                /\ errors_q' = q_fixed(errors_q)
           ELSE UNCHANGED << fs_sub, wrote, after_stop, errors_q >>
    /\ lba_overread' = grow_overread(lba_overread)
    /\ pc' = "poll"
    /\ UNCHANGED << cfgv, fs_scm, fs_state, lba, lba_next, errors_scsi, errors_c2,
                    errors_q_last, subcode_shift, refv, asus_leadout_buffer, bufs, engaged,
                    interrupt, result, faults, reads, flushes, failed, c2seen, stopped,
                    thrown >>
    /\ UNCHANGED call

-----------------------------------------------------------------------------
(* End of the iteration and the signal                                       *)

\* faulty variant: the loop is cut one sector late
forced_stop_late(over) == IF interrupt THEN lba + 1 ELSE over

\* "forced stop": lba_overread after the poll of the latch
forced_stop(over) == IF interrupt THEN lba ELSE over

\* Signal::GetInstance().Interrupt() is polled; then the loop advances
Poll ==
    /\ pc = "poll"
    /\ lba_overread' = forced_stop(lba_overread)
    /\ stopped' = (stopped \/ interrupt)
    /\ lba' = lba_next
    /\ sector_data' = NoSector /\ sector_subcode' = QZero /\ sector_state' = NoSector
    /\ flush' = FALSE
    /\ pc' = "loop"
    /\ UNCHANGED << cfgv, streams, lba_next, counters, subcode_shift, refv,
                    asus_leadout_buffer, engaged, interrupt, result, faults, reads,
                    flushes, wrote, failed, c2seen, after_stop, thrown >>
    /\ UNCHANGED call

\* the user interrupts the program while the latch is engaged
Signal ==
    /\ engaged
    /\ ~interrupt
    /\ interrupt' = TRUE
    /\ UNCHANGED << cfgv, pc, streams, lba, lba_next, lba_overread, counters,
                    subcode_shift, refv, asus_leadout_buffer, bufs, engaged, result,
                    faults, hist >>
    /\ UNCHANGED call

Next ==
    \/ Driver
    \/ Return
    \/ FatalError
    \/ Open
    \/ TocMismatch
    \/ Toc
    \/ LeadIn
    \/ Start
    \/ LoopExit
    \/ IterSkip
    \/ IterBegin
    \/ ReadSector
    \/ Throw
    \/ DumpWriteData
    \/ DumpWriteSub
    \/ DumpWriteState
    \/ RefineMerge
    \/ RefineWriteState
    \/ RefineSub
    \/ Poll
    \/ Signal

Spec == Init /\ [][Next]_vars

\* every variable of the engine
engine == << cfgv, pc, streams, lba, lba_next, lba_overread, counters, subcode_shift,
             refv, asus_leadout_buffer, bufs, engaged, interrupt, result, faults, hist >>

-----------------------------------------------------------------------------
(* Scrambler: the ECMA-130 table, Process, Descramble, DescrambleDIC         *)

\* the sector of the scrambler: sync(12), header(address 3, mode 1), payload
\* of UserBytes bytes
SectorBytes == 16 + UserBytes
SectorIx == 0..(SectorBytes - 1)

CD_DATA_SYNC == [i \in 0..11 |-> IF i = 0 \/ i = 11 THEN 0 ELSE 255]

\* offsetof(Sector, mode2.user_data); offsetof and sizeof of
\* Sector::mode1.intermediate in the scaled payload
Mode2UserData == 16
Mode1Intermediate == 18
Mode1IntermediateSize == 1

RECURSIVE bit_xor(_, _, _)
bit_xor(a, b, n) ==
    IF n = 0 THEN 0
    ELSE (((a % 2) + (b % 2)) % 2) + 2 * bit_xor(a \div 2, b \div 2, n - 1)

\* a ^ b on bytes
Xor8(a, b) == bit_xor(a, b, 8)

\* one turn of the 15-bit register, polynomial x15 + x + 1
shift_bit(r) ==
    LET carry == ((r % 2) + ((r \div 2) % 2)) % 2
    IN  (carry * 32768 + r) \div 2

\* b turns of the register; a register of 0 stays 0
RECURSIVE shift_bits(_, _)
shift_bits(r, b) == IF b = 0 \/ r = 0 THEN r ELSE shift_bits(shift_bit(r), b - 1)

\* shift_register when the table entry i is written
RECURSIVE shift_register(_)
shift_register(i) == IF i <= 12 THEN 1 ELSE shift_bits(shift_register(i - 1), 8)

\* faulty variant: the register runs over the sync as well
GenerateTableFromStart ==
    [i \in SectorIx |-> shift_bits(1, 8 * i) % 256]

\* _table after GenerateTable
GenerateTable ==
    [i \in SectorIx |-> IF i < 12 THEN 0 ELSE shift_register(i) % 256]

Process(sector, size) ==
    [i \in SectorIx |-> IF i < size THEN Xor8(sector[i], GenerateTable[i]) ELSE sector[i]]

is_zeroed(sector, from, n) == \A i \in SectorIx : from <= i /\ i < from + n => sector[i] = 0

MinNat(a, b) == IF a < b THEN a ELSE b

bcd_decode(b) == (b \div 16) * 10 + (b % 16)

\* the LBA of the BCD MSF address in the header of sector
BCDMSF_to_LBA(sector) ==
    (bcd_decode(sector[12]) * 60 + bcd_decode(sector[13])) * 75 + bcd_decode(sector[14]) - 150

sync_matches(sector) == \A i \in 0..11 : sector[i] = CD_DATA_SYNC[i]

\* the weak check both variants share: mode 0 with zeroed user data, mode 1, 2
mode_check(s, size) ==
    IF s[15] = 0
    THEN is_zeroed(s, Mode2UserData, MinNat(size - Mode2UserData, UserBytes))
    ELSE s[15] = 1 \/ s[15] = 2

\* faulty variant: the MSF match needs the sync as well
descramble_accepts_synced(s, hint, size) ==
    sync_matches(s) /\ ((hint.set /\ BCDMSF_to_LBA(s) = hint.v) \/ mode_check(s, size))

\* `unscrambled` of Descramble for the processed sector s
descramble_accepts(s, hint, size) ==
    IF hint.set /\ BCDMSF_to_LBA(s) = hint.v THEN TRUE
    ELSE sync_matches(s) /\ mode_check(s, size)

\* faulty variant: a failed attempt is left unscrambled
restore_never(s, unscrambled, size) == s

\* "if unsuccessful, scramble sector back"
restore(s, unscrambled, size) == IF unscrambled THEN s ELSE Process(s, size)

Descramble(sector, hint, size) ==
    IF is_zeroed(sector, 0, size) \/ size < 16
    THEN [ret |-> FALSE, sector |-> sector]
    ELSE LET s == Process(sector, size)
             unscrambled == descramble_accepts(s, hint, size)
         IN  [ret |-> unscrambled, sector |-> restore(s, unscrambled, size)]

\* faulty variant: no more than the modes Descramble accepts
dic_accepts_known_modes(s, size) == mode_check(s, size)

\* `unscrambled` of DescrambleDIC for the processed sector s
dic_accepts(s, size) ==
    IF s[15] \in {0, 1, 2} THEN mode_check(s, size)
    ELSE /\ size > Mode1Intermediate
         /\ is_zeroed(s, Mode1Intermediate,
                      MinNat(size - Mode1Intermediate, Mode1IntermediateSize))

DescrambleDIC(sector, hint, size) ==
    IF size < 16 THEN [ret |-> FALSE, sector |-> sector]
    ELSE IF ~sync_matches(sector) THEN [ret |-> FALSE, sector |-> sector]
    ELSE LET s == Process(sector, size)
             unscrambled == dic_accepts(s, size)
         IN  [ret |-> unscrambled, sector |-> restore(s, unscrambled, size)]

\* a sector before scrambling: sync, the address of LBA l, mode, payload
PlainSector(synced, l, mode, payload) ==
    [i \in SectorIx |->
        IF i < 12 THEN (IF synced \/ i # 1 THEN CD_DATA_SYNC[i] ELSE 0)
        ELSE IF i = 12 THEN 0
        ELSE IF i = 13 THEN 2
        ELSE IF i = 14 THEN l
        ELSE IF i = 15 THEN mode
        ELSE payload[i - 16]]

\* payloads: zeroed, data everywhere, data with a zeroed intermediate field
PayloadZero == [k \in 0..(UserBytes - 1) |-> 0]
PayloadData == [k \in 0..(UserBytes - 1) |-> 7 + k]
PayloadGap == [PayloadData EXCEPT ![Mode1Intermediate - 16] = 0]

\* sectors as a drive or a file delivers them: scrambled sectors of modes 0
\* to 3 at LBA 0 or 1 with and without the sync, a sector that is not
\* scrambled, a zeroed buffer and a buffer of noise
SectorBuffers ==
    { Process(PlainSector(sy, l, m, pl), SectorBytes) :
        sy \in BOOLEAN, l \in 0..1, m \in 0..3,
        pl \in {PayloadZero, PayloadData, PayloadGap} }
    \cup { PlainSector(TRUE, 0, 1, PayloadData),
           [i \in SectorIx |-> 0],
           [i \in SectorIx |-> (i * 37 + 11) % 256] }

LbaHints == {NoOpt, Opt(0), Opt(1)}

\* sizes: the whole sector, less than sync and header, header only, up to
\* the intermediate field
CallSizes == {SectorBytes, 15, 16, Mode1Intermediate}

ScramblerCalls ==
    [fn : {"Process"}, sector : SectorBuffers, size : {SectorBytes}, done : {FALSE}]
    \cup [fn : {"Descramble", "DescrambleDIC"}, sector : SectorBuffers,
          lba : LbaHints, size : CallSizes, done : {FALSE}]

CallProcess ==
    /\ UNCHANGED engine
    /\ call.fn = "Process" /\ ~call.done
    /\ call' = [fn |-> "Process", sector |-> call.sector, size |-> call.size,
                done |-> TRUE, out |-> Process(call.sector, call.size),
                twice |-> Process(Process(call.sector, call.size), call.size)]

CallDescramble ==
    /\ UNCHANGED engine
    /\ call.fn = "Descramble" /\ ~call.done
    /\ LET r == Descramble(call.sector, call.lba, call.size)
       IN  call' = [fn |-> "Descramble", sector |-> call.sector, lba |-> call.lba,
                    size |-> call.size, done |-> TRUE, ret |-> r.ret, out |-> r.sector]

CallDescrambleDIC ==
    /\ UNCHANGED engine
    /\ call.fn = "DescrambleDIC" /\ ~call.done
    /\ LET r == DescrambleDIC(call.sector, call.lba, call.size)
       IN  call' = [fn |-> "DescrambleDIC", sector |-> call.sector, lba |-> call.lba,
                    size |-> call.size, done |-> TRUE, ret |-> r.ret, out |-> r.sector]

-----------------------------------------------------------------------------
(* SystemPSX::detectLibCrypt                                                 *)

LIBCRYPT_SECTORS_BASE ==
    << 13955, 14081, 14335, 14429, 14499, 14749, 14906, 14980,
       15092, 15162, 15228, 15478, 15769, 15881, 15951, 16017,
       41895, 42016, 42282, 42430, 42521, 42663, 42862, 43027,
       43139, 43204, 43258, 43484, 43813, 43904, 44009, 44162 >>

LIBCRYPT_SECTORS_SHIFT == 5

\* faulty variant: the counts are counts of pairs
LIBCRYPT_PAIRS_COUNT == {8, 16}

LIBCRYPT_SECTORS_COUNT == {16, 32}

\* the pair of base i is looked at and both of its Q are invalid
libcrypt_pair(bad, track_end, i) ==
    LET lba1 == LIBCRYPT_SECTORS_BASE[i]
        lba2 == LIBCRYPT_SECTORS_BASE[i] + LIBCRYPT_SECTORS_SHIFT
    IN  /\ ~(lba1 >= track_end \/ lba2 >= track_end)
        /\ lba1 \in bad /\ lba2 \in bad

\* `candidates` after the first n bases
RECURSIVE libcrypt_candidates(_, _, _)
libcrypt_candidates(bad, track_end, n) ==
    IF n = 0 THEN << >>
    ELSE LET c == libcrypt_candidates(bad, track_end, n - 1)
         IN  IF libcrypt_pair(bad, track_end, n)
             THEN c \o << LIBCRYPT_SECTORS_BASE[n],
                          LIBCRYPT_SECTORS_BASE[n] + LIBCRYPT_SECTORS_SHIFT >>
             ELSE c

\* the value returned and the number of lines reported
detectLibCrypt(bad, track_end) ==
    LET candidates == libcrypt_candidates(bad, track_end, Len(LIBCRYPT_SECTORS_BASE))
        libcrypt == Len(candidates) \in LIBCRYPT_SECTORS_COUNT
    IN  [libcrypt |-> libcrypt, lines |-> IF libcrypt THEN Len(candidates) ELSE 0]

\* both sectors of the pairs of the bases in K
BadPairs(K) ==
    UNION {{LIBCRYPT_SECTORS_BASE[i], LIBCRYPT_SECTORS_BASE[i] + LIBCRYPT_SECTORS_SHIFT} :
                i \in K}

\* .subcode files by the LBAs whose Q is invalid: the pairs of the first or
\* of the last k bases, alone or with the base sector of every other pair
BadSets ==
    UNION {{BadPairs(1..k), BadPairs((33 - k)..32),
            BadPairs(1..k) \cup {LIBCRYPT_SECTORS_BASE[i] : i \in 1..32}} : k \in 0..32}

\* _trackSize / CD_DATA_SIZE: a track past every pair, one that ends after
\* the pair of the 8th base, one that ends between a base and its twin
TrackEnds == {50000, 14990, 15953}

PsxCalls == [fn : {"detectLibCrypt"}, bad : BadSets, track_end : TrackEnds, done : {FALSE}]

CallDetectLibCrypt ==
    /\ UNCHANGED engine
    /\ call.fn = "detectLibCrypt" /\ ~call.done
    /\ LET r == detectLibCrypt(call.bad, call.track_end)
       IN  call' = [fn |-> "detectLibCrypt", bad |-> call.bad,
                    track_end |-> call.track_end, done |-> TRUE,
                    libcrypt |-> r.libcrypt, lines |-> r.lines]

-----------------------------------------------------------------------------
(* state_from_c2 and the count of the sector in a dump                       *)

C2Bytes == {0, 1, 8, 16, 48, 128, 17, 255}

C2Calls ==
    [fn : {"state_from_c2"},
     state : {AllOf(SUCCESS), AllOf(SUCCESS_SCSI_OFF), FirstRest(ERROR_SKIP, SUCCESS),
              FirstRest(SUCCESS_C2_OFF, ERROR_C2)},
     c2 : [0..(CD_C2_SIZE - 1) -> C2Bytes],
     errors_c2 : 0..1, done : {FALSE}]

\* the call and, in a dump, "++errors_c2" under "if(c2_count)"
CallStateFromC2 ==
    /\ UNCHANGED engine
    /\ call.fn = "state_from_c2" /\ ~call.done
    /\ call' = [fn |-> "state_from_c2", state |-> call.state, c2 |-> call.c2,
                errors_c2 |-> call.errors_c2, done |-> TRUE,
                out |-> state_from_c2(call.state, call.c2),
                ret |-> c2_count(call.c2),
                errors_c2_out |-> IF c2_count(call.c2) # 0
                                  THEN c2_error(call.errors_c2) ELSE call.errors_c2]

-----------------------------------------------------------------------------
(* The functions outside the engine, each called once on one input          *)

\* the last track of the TOC: a lead-out ahead of the lead-in, at the first
\* LBA, at or before the start of the track, and after it
TocTracks == [lba_start : {-3, 0, 2, 5}, lba_end : {-150, -2, -1, 0, 2, 5, 8}]

TocCalls == [fn : {"toc_lba_end"}, last : TocTracks, two : BOOLEAN, done : {FALSE}]

TocSessions(c) ==
    LET last == [first |-> c.last.lba_start, lba_end |-> c.last.lba_end]
    IN  IF c.two THEN << [first |-> -3, lba_end |-> -3], last >> ELSE << last >>

\* lba_end of redumper_dump ahead of the command line's --lba-end
CallTocLbaEnd ==
    /\ UNCHANGED engine
    /\ call.fn = "toc_lba_end" /\ ~call.done
    /\ call' = [fn |-> "toc_lba_end", last |-> call.last, two |-> call.two,
                done |-> TRUE,
                lba_end |-> toc_lba_end([Base EXCEPT !.sessions = TocSessions(call)])]

CallInputs == ScramblerCalls \cup PsxCalls \cup C2Calls \cup TocCalls

InitCalls == EngineInit({Base}) /\ call \in CallInputs

NextCalls ==
    \/ CallProcess
    \/ CallDescramble
    \/ CallDescrambleDIC
    \/ CallDetectLibCrypt
    \/ CallStateFromC2
    \/ CallTocLbaEnd

SpecCalls == InitCalls /\ [][NextCalls]_vars

-----------------------------------------------------------------------------
(* Runs under fairness: the program takes its next step whenever it has one  *)

\* a drive that delivers a sector at every LBA it is asked for
Endless(c) == c.disc_end \notin LBAs

EndlessScenarios ==
    { [Base EXCEPT !.sessions = << [first |-> 0, lba_end |-> 6] >>, !.disc_end = 9,
                   !.opt_lba_start = Opt(5)],
      [Base EXCEPT !.sessions = << [first |-> 0, lba_end |-> 6] >>, !.disc_end = 9,
                   !.opt_lba_start = Opt(5), !.opt_lba_end = Opt(7)],
      [JustRefine EXCEPT !.sessions = << [first |-> 0, lba_end |-> 6] >>, !.disc_end = 9,
                   !.opt_lba_start = Opt(5), !.retries = 2],
      [JustRefine EXCEPT !.sessions = << [first |-> 0, lba_end |-> 6] >>, !.disc_end = 9,
                   !.opt_lba_start = Opt(5), !.opt_lba_end = Opt(7)] }

LiveScenarios ==
    EndlessScenarios \cup
    { [Base EXCEPT !.pregap_start = 0 - 1, !.read_offset = 1, !.disc_end = 4],
      [Base EXCEPT !.opt_lba_end = Opt(3), !.skip = << <<1, 2>> >>, !.read_offset = 0 - 1],
      [Base EXCEPT !.state_exists = TRUE],
      [Base EXCEPT !.type = "PLEXTOR", !.sessions = FarSessions, !.pregap_start = 0 - 1,
                   !.plextor_skip_leadin = FALSE, !.opt_lba_start = Opt(4),
                   !.disc_end = 6],
      [JustRefine EXCEPT !.retries = 2, !.read_offset = 1, !.disc_end = 4],
      [JustRefine EXCEPT !.refine_subchannel = TRUE, !.skip = << <<1, 2>> >>,
                   !.opt_lba_end = Opt(3)],
      [JustRefine EXCEPT !.toc_match = FALSE, !.type = "PLEXTOR",
                         !.sessions = FarSessions, !.pregap_start = 0 - 1,
                         !.plextor_skip_leadin = FALSE, !.disc_end = 6],
      [Tiny EXCEPT !.modes = << "dump", "refine", "info", "refine" >>],
      [Tiny EXCEPT !.type = "LG_ASUS", !.modes = << "dump", "refine" >>] }

InitLive == EngineInit(LiveScenarios) /\ call = NoCall

\* Past the last LBA of the model the iterations of the loop are all alike
\* when the drive delivers every LBA and no --lba-end is given: nothing is
\* stored there, so the sector reads back as ERROR_SKIP, is read and stored,
\* and lba_overread grows with lba. They are folded into one iteration that
\* repeats; lba and lba_overread then stand for "past the model", one apart.
BeyondRead ==
    /\ pc = "loop"
    /\ lba < lba_overread
    /\ lba \notin LBAs
    /\ Endless(cfg) /\ ~cfg.opt_lba_end.set
    /\ pc' = "beyond"
    /\ UNCHANGED << cfgv, streams, lba, lba_next, lba_overread, counters, subcode_shift,
                    refv, asus_leadout_buffer, bufs, engaged, interrupt, result, faults,
                    hist >>
    /\ UNCHANGED call

\* the sector is stored, lba_overread grows, the latch is polled, lba advances
BeyondStore ==
    /\ pc = "beyond"
    /\ lba_overread' = forced_stop(lba_overread)
    /\ stopped' = (stopped \/ interrupt)
    /\ pc' = "loop"
    /\ UNCHANGED << cfgv, streams, lba, lba_next, counters, subcode_shift, refv,
                    asus_leadout_buffer, bufs, engaged, interrupt, result, faults, reads,
                    flushes, wrote, failed, c2seen, after_stop, thrown >>
    /\ UNCHANGED call

NextLive ==
    \/ Driver
    \/ Return
    \/ FatalError
    \/ Open
    \/ TocMismatch
    \/ Toc
    \/ LeadIn
    \/ Start
    \/ LoopExit
    \/ IterSkip
    \/ IterBegin
    \/ ReadSector
    \/ Throw
    \/ DumpWriteData
    \/ DumpWriteSub
    \/ DumpWriteState
    \/ RefineMerge
    \/ RefineWriteState
    \/ RefineSub
    \/ Poll
    \/ BeyondRead
    \/ BeyondStore
    \/ Signal

\* the steps of the program; Signal is the user's
Program ==
    \/ Driver \/ Return \/ FatalError \/ Open \/ TocMismatch \/ Toc \/ LeadIn
    \/ Start \/ LoopExit \/ IterSkip \/ IterBegin \/ ReadSector \/ Throw
    \/ DumpWriteData \/ DumpWriteSub \/ DumpWriteState
    \/ RefineMerge \/ RefineWriteState \/ RefineSub \/ Poll
    \/ BeyondRead \/ BeyondStore

SpecLive == InitLive /\ [][NextLive]_vars /\ WF_vars(Program)

-----------------------------------------------------------------------------
(* Properties                                                                *)

Max(a, b) == IF a > b THEN a ELSE b

InLoop == pc \in {"loop", "read", "store", "dsub", "dstate", "rstate", "rsub", "poll"}

Running == InLoop \/ pc \in {"done", "thrown"}

\* LBAs whose errors count: outside every error range and below lba_end
CountedLBA(l) == inside_range(l, error_ranges) = 0 /\ l < lba_end

FileStateAtLba == StoredState(fs_state, cfg, lba)
FileDataAtLba == StoredData(fs_scm, cfg, lba)

\* C1: in a refine store the merged state of every sample is the maximum of
\* its stored and its newly read state, the state record written back is
\* that maximum, a sector that is not written back already holds it, and no
\* step of a refine run lowers a sample of the state stream.
C1_MergeKeepsMax ==
    [][cfg.refine /\ Running =>
        /\ (pc = "store" /\ pc' # pc =>
                \A i \in Samples : sector_state'[i] = Max(FileStateAtLba[i], sector_state[i]))
        /\ (pc = "store" /\ pc' \notin {"store", "rstate"} =>
                \A i \in Samples : FileStateAtLba[i] = Max(FileStateAtLba[i], sector_state[i]))
        /\ (pc = "rstate" /\ pc' # pc => StoredState(fs_state', cfg, lba) = sector_state)
        /\ \A p \in DOMAIN fs_state : fs_state'[p] >= fs_state[p]]_vars

\* a merge that raised one sample and inherited another from the file
C1_Witness ==
    /\ cfg.refine /\ pc = "rstate"
    /\ \E i \in Samples : sector_state[i] > FileStateAtLba[i]
    /\ \E j \in Samples : sector_data[j] = OldWord /\ sector_state[j] > ERROR_C2

\* C2 as claimed: in a refine store that writes the sector back, a sample
\* whose new state is not strictly greater than its stored state keeps its
\* stored data word and its stored state (ties prefer the file).
C2_TiesPreferFile ==
    [][cfg.refine /\ pc = "store" /\ pc' = "rstate" =>
        \A i \in Samples :
            sector_state[i] <= FileStateAtLba[i] =>
                /\ StoredData(fs_scm', cfg, lba)[i] = FileDataAtLba[i]
                /\ sector_state'[i] = FileStateAtLba[i]]_vars

\* C2 amended: in a refine store that writes the sector back, the data word
\* of a sample is the stored word when its stored state is strictly greater
\* than the new one and the newly read word otherwise (also on equal
\* states); the state of a sample that did not strictly improve stays the
\* stored one; a store with no write-back leaves the data stream alone.
C2_DataFollowsState ==
    [][cfg.refine /\ pc = "store" /\ pc' # pc =>
        /\ (pc' = "rstate" =>
                \A i \in Samples :
                    /\ StoredData(fs_scm', cfg, lba)[i] =
                            IF FileStateAtLba[i] > sector_state[i]
                            THEN FileDataAtLba[i] ELSE sector_data[i]
                    /\ (sector_state[i] <= FileStateAtLba[i] =>
                            sector_state'[i] = FileStateAtLba[i]))
        /\ (pc' # "rstate" => fs_scm' = fs_scm)]_vars

\* a written-back sector in which a sample with an unchanged state holds the
\* newly read word
C2_Witness ==
    /\ cfg.refine /\ pc = "rstate"
    /\ \E i \in Samples :
        /\ FileStateAtLba[i] = sector_state[i]
        /\ FileStateAtLba[i] > ERROR_SKIP
        /\ FileDataAtLba[i] = NewWord(0)

\* C3: a step of a refine run changes the data stream, the state stream,
\* errors_scsi or errors_c2 only inside the store of a sector in which some
\* sample's new state is strictly greater than its stored state.
C3_NoImprovementNoWrite ==
    [][/\ cfg.refine /\ Running
       /\ \/ fs_scm' # fs_scm \/ fs_state' # fs_state
          \/ errors_scsi' # errors_scsi \/ errors_c2' # errors_c2
       => /\ pc \in {"store", "rstate"}
          /\ \E i \in Samples : sector_state[i] > FileStateAtLba[i]]_vars

\* a sector was read and stored without any improvement: nothing written
C3_Witness ==
    /\ cfg.refine /\ pc = "rsub"
    /\ reads[lba] = 1
    /\ wrote[lba] = {}
    /\ \E i \in Samples : sector_state[i] = ERROR_C2

\* C4: in dump errors_scsi is the number of failed reads at LBAs outside
\* every error range and below lba_end; in dump and refine a read at an LBA
\* inside an error range or at or past lba_end leaves errors_scsi unchanged.
C4_ScsiErrorsCounted ==
    /\ [](~cfg.refine /\ Running =>
            errors_scsi = Cardinality({l \in failed : CountedLBA(l)}))
    /\ [][pc = "read" /\ ~CountedLBA(lba) => errors_scsi' = errors_scsi]_vars

\* a dump with a counted failed read and a failed read that is not counted
C4_Witness ==
    /\ ~cfg.refine /\ pc = "done"
    /\ \E l \in failed : CountedLBA(l)
    /\ \E l \in failed : ~CountedLBA(l)

\* C5 as claimed: in dump errors_c2 is the number of sectors with C2 bits at
\* LBAs outside every error range and below lba_end.
C5_C2ErrorsIsolated ==
    ~cfg.refine /\ Running =>
        errors_c2 = Cardinality({l \in c2seen : CountedLBA(l)})

\* C6: in a dump no LBA is read twice, the exception that can leave the loop
\* is raised before read_sector is issued, and a dump that ends without an
\* interrupt has read every LBA of [lba_start, lba_end) outside the skip and
\* error ranges exactly once.
C6_EveryLbaReadOnce ==
    ~cfg.refine =>
        /\ \A l \in LBAs : reads[l] <= 1
        /\ (pc = "thrown" => reads[lba] = 0)
        /\ (pc = "done" /\ ~stopped =>
                \A l \in LBAs :
                    (/\ lba_start <= l /\ l < lba_end
                     /\ inside_range(l, skip_ranges) = 0
                     /\ inside_range(l, error_ranges) = 0) => reads[l] = 1)

\* a completed dump in which a read failed and a later LBA was still read
C6_Witness ==
    /\ ~cfg.refine /\ pc = "done" /\ ~stopped
    /\ \E l \in failed : CountedLBA(l) /\ l + 1 < lba_end /\ reads[l + 1] = 1

\* C7 as claimed: no read_sector and no stream write is issued for an LBA
\* inside a skip range.
C7_SkipRangesUntouched ==
    Running =>
        \A l \in LBAs : inside_range(l, skip_ranges) # 0 => reads[l] = 0 /\ wrote[l] = {}

\* C8: once the poll has seen the latch set the loop condition fails: no
\* read, cache access, flush or stream write follows.
C8_StopExitsLoop ==
    /\ ~after_stop
    /\ (stopped => pc \in {"loop", "done", "driver"} /\ ~(lba < lba_overread))

\* a refine stopped at an LBA that was scheduled for another attempt
C8_Witness ==
    /\ cfg.refine /\ stopped /\ pc = "done"
    /\ lba = lba_refine /\ lba_next = lba
    /\ reads[lba] = 1

\* C9: in a dump, at every iteration boundary and at the end, each LBA has
\* all of its records written (data, state, and subcode when the drive
\* delivers it) or none.
C9_SectorWrittenWhole ==
    ~cfg.refine /\ pc \in {"loop", "poll", "done"} =>
        \A l \in LBAs :
            \/ wrote[l] = {}
            \/ wrote[l] = {"data", "state"} \cup (IF cfg.subcode THEN {"sub"} ELSE {})

\* a dump ended by an interrupt whose last sector is stored
C9_Witness ==
    /\ ~cfg.refine /\ stopped /\ pc = "done" /\ cfg.subcode
    /\ wrote[lba_overread] = {"data", "sub", "state"}

\* C10: the latch is engaged exactly while the loop runs: not before it, not
\* after a fatal error before the loop, not after the return and not after
\* an exception left the loop.
C10_LatchFollowsLoop == engaged <=> InLoop

\* an exception has left the loop
C10_Witness == pc = "thrown" /\ thrown /\ ~engaged

-----------------------------------------------------------------------------
(* Properties of the entry, the return value and the driver                  *)

Stored(l) == l \in LBAs /\ "state" \in wrote[l]

\* C11: a dump entered without overwrite while .state exists fails at once
\* and leaves the streams, the .toc file and the .state file as they were;
\* with overwrite, or without .state, the streams are opened truncated.
C11_ExistingImageBlocksDump ==
    /\ [][pc = "start" /\ ~cfg.refine =>
            IF ~cfg.overwrite /\ state_file
            THEN /\ pc' = "failed"
                 /\ UNCHANGED << fs_scm, fs_sub, fs_state, toc_file, state_file, touched >>
            ELSE /\ pc' = "opened"
                 /\ fs_scm' = EmptyStream(CD_DATA_SIZE_SAMPLES, 0)
                 /\ fs_state' = EmptyStream(CD_DATA_SIZE_SAMPLES, ERROR_SKIP)
                 /\ (cfg.subcode => fs_sub' = EmptyStream(1, QZero))]_vars
    /\ [](pc = "failed" /\ ~cfg.refine => touched = {})

\* a dump failed over an image whose streams hold data
C11_Witness ==
    /\ pc = "failed" /\ ~cfg.refine /\ state_file /\ ~cfg.overwrite
    /\ \E p \in DOMAIN fs_state : fs_state[p] = SUCCESS
    /\ touched = {}

\* C12: a refine whose TOC differs from the .toc file fails right after the
\* streams were opened: no lead-in capture, no read, no write to a stream or
\* to .toc; a refine never changes .toc, and a dump has stored it once it is
\* past the TOC step.
C12_TocMismatchStopsRefine ==
    /\ [][pc = "opened" /\ cfg.refine /\ toc_file # "disc" =>
            /\ pc' = "failed"
            /\ UNCHANGED << fs_scm, fs_sub, fs_state, toc_file >>]_vars
    /\ [](pc = "failed" /\ cfg.refine =>
            /\ touched = {} /\ leadin_buffers = << >>
            /\ reads = NoReads /\ wrote = NoWrites /\ ~engaged)
    /\ [][cfg.refine => toc_file' = toc_file]_vars
    /\ [](~cfg.refine /\ (pc \in {"leadin", "prelude"} \/ Running) => toc_file = "disc")

\* a refine of a two-session disc in a PLEXTOR drive failed on the TOC
C12_Witness ==
    /\ pc = "failed" /\ cfg.refine /\ toc_file = "other"
    /\ plextor_leadin(cfg)
    /\ \E p \in DOMAIN fs_state : fs_state[p] = ERROR_C2

\* C13: the value a dump returns is TRUE exactly when errors_scsi > 0 or
\* errors_c2 > 0 or the drive is LG/ASUS with the lead-out capture enabled;
\* errors_q plays no part.
C13_ReturnValue ==
    pc = "done" /\ ~cfg.refine =>
        (result <=> (\/ errors_scsi > 0 \/ errors_c2 > 0
                     \/ (drive_is_asus(cfg) /\ ~cfg.asus_skip_leadout)))

\* a dump with Q errors only returned FALSE
C13_Witness == pc = "done" /\ ~cfg.refine /\ ~result /\ errors_q > 0

\* the dump that ran last before entry k of the mode list, 0 if none
LastDump(k) ==
    LET D == {j \in 1..(k - 1) : ran[j].mode = "dump"}
    IN  IF D = {} THEN 0 ELSE MaxOf(D)

\* C14: a refine of the mode list is skipped exactly when a dump ran earlier
\* in the list and the last such dump returned FALSE; every other mode runs.
C14_RefineSkippedAfterCleanDump ==
    \A k \in 1..Len(ran) :
        /\ ran[k].mode = "refine" =>
                (~ran[k].run <=> (LastDump(k) # 0 /\ ~ran[LastDump(k)].ret))
        /\ ran[k].mode # "refine" => ran[k].run

\* after a clean dump both refines were skipped and the mode between them ran
C14_Witness ==
    /\ Len(ran) = 4
    /\ ran[1].mode = "dump" /\ ran[1].run /\ ~ran[1].ret
    /\ ~ran[2].run /\ ran[3].run /\ ~ran[4].run

\* C15 as claimed: after an uninterrupted dump that stored lba_end - 1,
\* lba_overread > lba_end exactly when no CLI lba_end was given and some LBA
\* at or past lba_end was stored; under a CLI lba_end lba_overread never
\* exceeds lba_end and no LBA at or past lba_end is read.
C15_OverreadIffSuccess ==
    /\ (pc = "done" /\ ~cfg.refine /\ ~stopped /\ Stored(lba_end - 1) =>
            (lba_overread > lba_end <=>
                (~cfg.opt_lba_end.set /\ \E l \in LBAs : l >= lba_end /\ Stored(l))))
    /\ (Running /\ cfg.opt_lba_end.set =>
            lba_overread <= lba_end /\ \A l \in LBAs : l >= lba_end => reads[l] = 0)

\* C15 amended: after an uninterrupted dump that stored lba_end - 1,
\* lba_overread > lba_end exactly when no CLI lba_end was given and the LBA
\* lba_end was stored or lies inside a skip range; under a CLI lba_end
\* lba_overread never exceeds lba_end and no LBA at or past lba_end is read.
C15_OverreadIffSuccessOrSkip ==
    /\ (pc = "done" /\ ~cfg.refine /\ ~stopped /\ Stored(lba_end - 1) =>
            (lba_overread > lba_end <=>
                (/\ ~cfg.opt_lba_end.set
                 /\ (Stored(lba_end) \/ inside_range(lba_end, skip_ranges) # 0))))
    /\ (Running /\ cfg.opt_lba_end.set =>
            lba_overread <= lba_end /\ \A l \in LBAs : l >= lba_end => reads[l] = 0)

\* the overread grew over a sector past the TOC end
C15_Witness ==
    /\ pc = "done" /\ ~cfg.refine /\ ~stopped /\ Stored(lba_end - 1)
    /\ ~cfg.opt_lba_end.set
    /\ Stored(lba_end) /\ lba_overread = lba_end + 1

-----------------------------------------------------------------------------
(* Properties of the refine pass                                             *)

\* the stored state of LBA l holds an ERROR_SKIP or an ERROR_C2 sample
DefectiveState(l) ==
    \/ Has(StoredState(fs_state, cfg, l), ERROR_SKIP)
    \/ Has(StoredState(fs_state, cfg, l), ERROR_C2)

\* the stored Q in the subcode slot `shift` slots after the one of LBA l
InvalidQ(l, shift) == ~read_sub(fs_sub, l - LBA_START + shift).valid

\* no LBA of the range outside the skip ranges asks for a re-read
NoDefect ==
    \A l \in LBAs :
        lba_start <= l /\ l < lba_end /\ inside_range(l, skip_ranges) = 0 =>
            /\ ~DefectiveState(l)
            /\ ~(cfg.refine_subchannel /\ cfg.subcode /\ InvalidQ(l, 0))

RefinePass == cfg.refine /\ ~asus_path /\ Running

\* C16 as claimed: a refine without the LG/ASUS path reads an LBA only if its
\* stored state holds ERROR_SKIP or ERROR_C2, or refine_subchannel is set and
\* the stored Q of that LBA is invalid; a pass over streams without such an
\* LBA in range reads nothing and modifies no stream.
C16_RefineReadsOnlyDefective ==
    /\ [][RefinePass /\ pc = "read" /\ reads' # reads =>
            DefectiveState(lba) \/ (cfg.refine_subchannel /\ InvalidQ(lba, 0))]_vars
    /\ [](RefinePass /\ NoDefect /\ reads = NoReads =>
            wrote = NoWrites /\ touched = {})

\* C16 amended: the Q that selects an LBA is the one in the subcode slot
\* lba_index + subcode_shift, and a pass over streams without a defective
\* LBA in range reads nothing and modifies no stream once the loop is
\* entered (the Plextor lead-in capture ahead of the loop may write).
C16_RefineReadsOnlySelected ==
    /\ [][RefinePass /\ pc = "read" /\ reads' # reads =>
            \/ DefectiveState(lba)
            \/ (cfg.refine_subchannel /\ cfg.subcode /\ InvalidQ(lba, subcode_shift))]_vars
    /\ [][RefinePass /\ NoDefect /\ reads = NoReads =>
            /\ reads' = reads \/ pc' = "driver"
            /\ UNCHANGED << fs_scm, fs_sub, fs_state, subcode_shift >>]_vars
    /\ [](RefinePass /\ NoDefect /\ reads = NoReads => wrote = NoWrites)

\* the second of two refines found nothing to read after the first one had
\* repaired the streams
C16_Witness ==
    /\ pc = "done" /\ RefinePass /\ NoDefect
    /\ Len(ran) = 2 /\ ran[1].mode = "refine"
    /\ Len(prelude_log) = 2 /\ prelude_log[1].count > 0 /\ prelude_log[2].count = 0
    /\ reads = NoReads /\ wrote = NoWrites

\* C17: within one refine pass each LBA is read at most refine_retries
\* times, and after an uninterrupted pass every LBA that was read and whose
\* stored state is still defective has been read exactly refine_retries
\* times.
C17_RetryBudgetUsed ==
    RefinePass =>
        /\ \A l \in LBAs : reads[l] <= refine_retries
        /\ (pc = "done" /\ ~stopped =>
                \A l \in LBAs :
                    reads[l] > 0 /\ DefectiveState(l) => reads[l] = refine_retries)

\* errors_scsi + errors_c2 of entry k of the prelude log
PreludeErrors(k) == prelude_log[k].scsi + prelude_log[k].c2

\* C18: during a refine pass errors_scsi + errors_c2 never exceeds the sum
\* its prelude computed, and the prelude of a later refine over the streams
\* the earlier one left finds no more errors and no more sectors to refine
\* than the earlier prelude did.
C18_RefineNeverAddsErrors ==
    /\ (cfg.refine /\ Running =>
            errors_scsi + errors_c2 <= PreludeErrors(Len(prelude_log)))
    /\ \A k \in 2..Len(prelude_log) :
            /\ PreludeErrors(k) <= PreludeErrors(k - 1)
            /\ prelude_log[k].count <= prelude_log[k - 1].count

\* the second of two refines started from fewer errors than the first and
\* repaired the rest
C18_Witness ==
    /\ pc = "done" /\ cfg.refine /\ Len(prelude_log) = 2
    /\ PreludeErrors(1) = 2 /\ PreludeErrors(2) = 1
    /\ errors_scsi + errors_c2 = 0

-----------------------------------------------------------------------------
(* Properties of the Plextor lead-in capture                                 *)

\* C19: the lead-in commit changes the state and the data word of a sample
\* only if the stored state of that sample is below SUCCESS_C2_OFF, and
\* overwrites a subcode slot only if the stored Q in it is invalid.
C19_LeadinKeepsGoodSamples ==
    [][pc = "leadin" =>
        /\ \A p \in DOMAIN fs_state :
               fs_state[p] >= SUCCESS_C2_OFF =>
                   fs_state'[p] = fs_state[p] /\ fs_scm'[p] = fs_scm[p]
        /\ \A p \in DOMAIN fs_sub :
               fs_sub'[p] # fs_sub[p] => ~fs_sub[p].valid]_vars

\* a dump of a two-session disc is past a lead-in capture that kept
\* entries for session 2, none of them with a SCSI error
LeadinCaptured ==
    /\ pc = "prelude" /\ ~cfg.refine /\ plextor_leadin(cfg)
    /\ Len(cfg.sessions) = 2 /\ Len(leadin_buffers) = 2
    /\ leadin_buffers[2] # << >>
    /\ \A k \in 1..Len(leadin_buffers[2]) : leadin_buffers[2][k].ok

\* every sample of every LBA of [from, to) has state SUCCESS_C2_OFF
FilledC2Off(from, to) ==
    \A l \in LBAs :
        from <= l /\ l < to => StoredState(fs_state, cfg, l) = AllOf(SUCCESS_C2_OFF)

\* C20 as claimed: after an error-free lead-in capture for session 2 into
\* fresh streams every sample of the MSF_LBA_SHIFT LBAs ahead of the start
\* of the session 2 tracks has state SUCCESS_C2_OFF.
C20_LeadinFillsBeforeSession ==
    LeadinCaptured =>
        FilledC2Off(cfg.sessions[2].first + MSF_LBA_SHIFT, cfg.sessions[2].first)

\* C20 amended: the n entries kept for session 2 fill the n LBAs that end at
\* session 2 start + pregap_start with SUCCESS_C2_OFF, and the LBAs from
\* there to the start of the session 2 tracks are left as they were.
C20_LeadinFillsBeforePregap ==
    LeadinCaptured =>
        LET pe == cfg.sessions[2].first + cfg.pregap_start
        IN  /\ FilledC2Off(pe - Len(leadin_buffers[2]), pe)
            /\ \A l \in LBAs :
                   pe <= l /\ l < cfg.sessions[2].first =>
                       StoredState(fs_state, cfg, l) = AllOf(ERROR_SKIP)

\* three entries were kept and stored ahead of the pre-gap of session 2
C20_Witness ==
    /\ LeadinCaptured /\ Len(leadin_buffers[2]) = 3
    /\ FilledC2Off(cfg.sessions[2].first + cfg.pregap_start - 3,
                   cfg.sessions[2].first + cfg.pregap_start)

-----------------------------------------------------------------------------
(* The scrambler                                                             *)

\* C22: Process is an involution that never touches the sync: for every
\* buffer b, Process(Process(b)) = b, and bytes [0, 12) of Process(b) are
\* bytes [0, 12) of b.
C22_ProcessInvolution ==
    call.fn = "Process" /\ call.done =>
        /\ call.twice = call.sector
        /\ \A i \in 0..11 : call.out[i] = call.sector[i]

\* a buffer went through Process, which changed bytes of it
C22_Witness ==
    /\ call.fn = "Process" /\ call.done
    /\ call.out # call.sector
    /\ \E i \in 12..(SectorBytes - 1) : call.sector[i] # 0 /\ call.out[i] # 0

\* the header address of the unscrambled buffer decodes to the LBA supplied
MSFMatches(sector, hint, size) ==
    hint.set /\ BCDMSF_to_LBA(Process(sector, size)) = hint.v

\* C23 as claimed: for every buffer whose first 12 bytes are not the data
\* sync pattern Descramble returns false and leaves every byte unchanged,
\* whether or not an expected LBA is supplied.
C23_NoSyncNeverDescrambled ==
    call.fn = "Descramble" /\ call.done /\ ~sync_matches(call.sector) =>
        ~call.ret /\ call.out = call.sector

\* C23 amended: for every buffer whose first 12 bytes are not the data sync
\* pattern Descramble returns false and leaves every byte unchanged when no
\* expected LBA is supplied or the address of the unscrambled header does
\* not decode to the LBA supplied; when it does, a buffer that is not zeroed
\* and holds a header is descrambled and Descramble returns true.
C23_NoSyncNeedsMSF ==
    call.fn = "Descramble" /\ call.done /\ ~sync_matches(call.sector) =>
        IF /\ MSFMatches(call.sector, call.lba, call.size)
           /\ call.size >= 16 /\ ~is_zeroed(call.sector, 0, call.size)
        THEN call.ret /\ call.out = Process(call.sector, call.size)
        ELSE ~call.ret /\ call.out = call.sector

\* a buffer without the sync was refused although an LBA was supplied, its
\* header decoding to another LBA
C23_Witness ==
    /\ call.fn = "Descramble" /\ call.done /\ ~sync_matches(call.sector)
    /\ call.lba.set /\ call.size = SectorBytes
    /\ ~is_zeroed(call.sector, 0, call.size)
    /\ BCDMSF_to_LBA(call.out) # call.lba.v
    /\ ~call.ret /\ call.out = call.sector

\* C24: whenever Descramble or DescrambleDIC returns false the buffer is
\* byte for byte what it was before the call; the buffer holds the
\* descrambled bytes only when the call returns true.
C24_FailureRestoresBuffer ==
    call.fn \in {"Descramble", "DescrambleDIC"} /\ call.done =>
        /\ ~call.ret => call.out = call.sector
        /\ call.ret => call.out = Process(call.sector, call.size)

\* a synced sector of a mode that is refused went through Process twice
C24_Witness ==
    /\ call.fn \in {"Descramble", "DescrambleDIC"} /\ call.done
    /\ sync_matches(call.sector) /\ call.size = SectorBytes
    /\ Process(call.sector, call.size)[15] = 3
    /\ ~call.ret /\ call.out = call.sector

-----------------------------------------------------------------------------
(* LibCrypt                                                                  *)

\* the bases whose sector and whose twin both have an invalid Q in the file
BadBases(bad) ==
    {i \in 1..Len(LIBCRYPT_SECTORS_BASE) :
        /\ LIBCRYPT_SECTORS_BASE[i] \in bad
        /\ LIBCRYPT_SECTORS_BASE[i] + LIBCRYPT_SECTORS_SHIFT \in bad}

\* the bases of BadBases whose sector and twin lie inside the track
BadBasesInTrack(bad, track_end) ==
    {i \in BadBases(bad) :
        LIBCRYPT_SECTORS_BASE[i] + LIBCRYPT_SECTORS_SHIFT < track_end}

\* C25 as claimed: detectLibCrypt reports LibCrypt if and only if the number
\* of the 32 base LBAs for which both base and base + 5 have an invalid Q is
\* exactly 16 or exactly 32.
C25_LibCryptIffBases ==
    call.fn = "detectLibCrypt" /\ call.done =>
        (call.libcrypt <=> Cardinality(BadBases(call.bad)) \in {16, 32})

\* C25 amended: detectLibCrypt reports LibCrypt if and only if the number of
\* base LBAs inside the track for which both base and base + 5 have an
\* invalid Q is exactly 8 or exactly 16, that is 16 or 32 sectors; it then
\* reports two lines for each of them.
C25_LibCryptIffSectors ==
    call.fn = "detectLibCrypt" /\ call.done =>
        LET n == Cardinality(BadBasesInTrack(call.bad, call.track_end))
        IN  /\ call.libcrypt <=> n \in {8, 16}
            /\ call.libcrypt => call.lines = 2 * n

\* LibCrypt was reported for a file with 8 pairs of invalid Q
C25_Witness ==
    /\ call.fn = "detectLibCrypt" /\ call.done
    /\ Cardinality(BadBases(call.bad)) = 8
    /\ call.libcrypt /\ call.lines = 16

-----------------------------------------------------------------------------
(* Descramble and DescrambleDIC side by side                                 *)

\* DescrambleDIC accepts what Descramble accepted in the call just made
DicAcceptsToo ==
    call.ret => DescrambleDIC(call.sector, call.lba, call.size).ret

\* a synced sector of a mode outside {0, 1, 2} whose intermediate field is
\* within size and zeroed
LegacySector(sector, size) ==
    /\ sync_matches(sector) /\ size > Mode1Intermediate
    /\ Process(sector, size)[15] \notin {0, 1, 2}
    /\ is_zeroed(Process(sector, size), Mode1Intermediate, Mode1IntermediateSize)

\* DescrambleDIC returns true for a LegacySector
DicAcceptsLegacy ==
    call.fn = "DescrambleDIC" /\ call.done /\ LegacySector(call.sector, call.size) =>
        call.ret

\* C28 as claimed: for every buffer, LBA hint and size for which Descramble
\* returns true DescrambleDIC returns true as well, and DescrambleDIC also
\* returns true for sectors of a mode outside {0, 1, 2} whose Mode-1
\* intermediate field is zero.
C28_DicSuperset ==
    /\ call.fn = "Descramble" /\ call.done => DicAcceptsToo
    /\ DicAcceptsLegacy

\* C28 amended: for every buffer and size for which Descramble returns true
\* without the header address decoding to a supplied LBA, DescrambleDIC
\* returns true as well, and DescrambleDIC also returns true for synced
\* sectors of a mode outside {0, 1, 2} whose Mode-1 intermediate field is
\* zero.
C28_DicSupersetWithoutMSF ==
    /\ call.fn = "Descramble" /\ call.done
            /\ ~MSFMatches(call.sector, call.lba, call.size) => DicAcceptsToo
    /\ DicAcceptsLegacy

\* DescrambleDIC accepted a sector of mode 3 that Descramble refuses
C28_Witness ==
    /\ call.fn = "DescrambleDIC" /\ call.done /\ call.ret
    /\ LegacySector(call.sector, call.size)
    /\ ~Descramble(call.sector, call.lba, call.size).ret

-----------------------------------------------------------------------------
(* state_from_c2                                                             *)

\* the four C2 bits that cover sample i
C2Nibble(c2, i) == IF i % 2 = 0 THEN c2[i \div 2] \div 16 ELSE c2[i \div 2] % 16

\* the number of bits set in the first n bytes of c2
RECURSIVE C2SetBits(_, _)
C2SetBits(c2, n) ==
    IF n = 0 THEN 0
    ELSE C2SetBits(c2, n - 1)
         + Cardinality({k \in 0..7 : (c2[n - 1] \div (2 ^ k)) % 2 = 1})

\* C29: state_from_c2 sets sample i to ERROR_C2 exactly when one of the four
\* C2 bits that cover it is set (high nibble of byte i / 2 for even i, low
\* nibble for odd i), leaves every other sample as it was and returns the
\* number of bits set in the C2 bytes; errors_c2 of a dump goes up by one for
\* a sector with a return above zero, not by one per bit.
C29_StateFromC2 ==
    call.fn = "state_from_c2" /\ call.done =>
        /\ \A i \in Samples :
               call.out[i] = IF C2Nibble(call.c2, i) # 0 THEN ERROR_C2 ELSE call.state[i]
        /\ call.ret = C2SetBits(call.c2, CD_C2_SIZE)
        /\ call.errors_c2_out = call.errors_c2 + (IF call.ret # 0 THEN 1 ELSE 0)

\* two bits of the high nibble were set: sample 0 became ERROR_C2, sample 1
\* kept SUCCESS and the sector was counted once
C29_Witness ==
    /\ call.fn = "state_from_c2" /\ call.done
    /\ call.state = AllOf(SUCCESS) /\ call.ret = 2
    /\ call.out[0] = ERROR_C2 /\ call.out[1] = SUCCESS
    /\ call.errors_c2_out = call.errors_c2 + 1

-----------------------------------------------------------------------------
(* The LG/ASUS cache                                                         *)

\* the first LBA the cache tail stands for at lba
CacheFirst ==
    IF inside_range(lba, error_ranges) = 0 THEN lba_end
    ELSE error_ranges[inside_range(lba, error_ranges)][1]

\* the sector of lba is taken from the tail in buffer
FromCache(buffer) ==
    /\ asus_path
    /\ lba >= CacheFirst
    /\ lba - CacheFirst < Len(buffer)

\* C21: a sector synthesized from the LG/ASUS cache tail is never given
\* state SUCCESS: each of its samples is SUCCESS_SCSI_OFF, or ERROR_C2 where
\* its C2 bits are set, and no read_sector is issued for its LBA; through the
\* refine merge it raises a stored sample to at most SUCCESS_SCSI_OFF.
C21_CacheSectorBelowSuccess ==
    [][/\ pc = "loop" /\ pc' = "store" =>
            /\ FromCache(asus_leadout_buffer')
            /\ reads'[lba] = reads[lba]
            /\ \A i \in Samples :
                   sector_state'[i] =
                       IF C2Nibble(asus_leadout_buffer'[lba - CacheFirst + 1].c2, i) # 0
                       THEN ERROR_C2 ELSE SUCCESS_SCSI_OFF
       /\ pc \in {"loop", "read"} /\ FromCache(asus_leadout_buffer') => pc' # "read"
       /\ pc = "rstate" /\ FromCache(asus_leadout_buffer) =>
            \A i \in Samples :
                StoredState(fs_state', cfg, lba)[i] > StoredState(fs_state, cfg, lba)[i]
                    => StoredState(fs_state', cfg, lba)[i] <= SUCCESS_SCSI_OFF]_vars

\* a refine is about to write the state of a cache sector that raised a
\* stored sample to SUCCESS_SCSI_OFF
C21_Witness ==
    /\ pc = "rstate" /\ cfg.refine /\ FromCache(asus_leadout_buffer)
    /\ \E i \in Samples :
           /\ sector_state[i] = SUCCESS_SCSI_OFF
           /\ StoredState(fs_state, cfg, lba)[i] < SUCCESS_SCSI_OFF

-----------------------------------------------------------------------------
(* A dump without errors                                                     *)

\* a dump of a single-session disc on a generic drive with subchannel
\* support into fresh streams has returned; no option narrowed it, nobody
\* interrupted it and the drive answered without an anomaly
CleanDumpDone ==
    /\ pc = "done" /\ ~cfg.refine /\ cfg.modes[mode_ix] = "dump"
    /\ cfg.type = "GENERIC" /\ cfg.subcode /\ Len(cfg.sessions) = 1
    /\ ~cfg.opt_lba_start.set /\ ~cfg.opt_lba_end.set /\ cfg.skip = << >>
    /\ ~cfg.state_exists
    /\ faults = 0 /\ ~stopped

\* the LBAs that have a record of every stream, with every sample SUCCESS
StoredClean ==
    {l \in LBAs : /\ wrote[l] = {"data", "sub", "state"}
                  /\ StoredState(fs_state, cfg, l) = AllOf(SUCCESS)}

\* C26 as claimed: a dump without read errors of a single-session disc with
\* a negative pregap_start produces lba_end data records and lba_end subcode
\* records, those of the LBAs of the TOC, every state sample is SUCCESS and
\* redumper_dump returns false.
C26_DumpStoresTocLBAs ==
    CleanDumpDone /\ cfg.pregap_start < 0 =>
        /\ \A l \in LBAs : wrote[l] # {} <=> (0 <= l /\ l < lba_end)
        /\ StoredClean = {l \in LBAs : 0 <= l /\ l < lba_end}
        /\ ~result

\* C26 amended: a dump without read errors produces a data record, a subcode
\* record and a state record with every sample SUCCESS for every LBA from
\* pregap_start to the last LBA the drive delivered, which is lba_end - 1 or
\* a lead-out LBA after it, leaves every other sample ERROR_SKIP, and
\* redumper_dump returns false.
C26_DumpStoresFromPregap ==
    CleanDumpDone =>
        /\ lba_overread >= lba_end
        /\ \A l \in LBAs : wrote[l] # {} <=> (cfg.pregap_start <= l /\ l < lba_overread)
        /\ StoredClean = {l \in LBAs : cfg.pregap_start <= l /\ l < lba_overread}
        /\ \A l \in LBAs \ StoredClean : StoredState(fs_state, cfg, l) = AllOf(ERROR_SKIP)
        /\ ~result

\* the dump stored the sector of the pre-gap and a sector of the lead-out
C26_Witness ==
    /\ CleanDumpDone /\ cfg.pregap_start < 0
    /\ cfg.pregap_start \in StoredClean
    /\ lba_end \in StoredClean
    /\ ~result

-----------------------------------------------------------------------------
(* Refine of a sector with one C2 error                                      *)

\* the streams hold one ERROR_C2 sample, sample i of the sector at lba, and
\* it is the one error counted
OneC2Sample(i) ==
    /\ cfg.refine /\ errors_c2 = 1
    /\ StoredState(fs_state, cfg, lba)[i] = ERROR_C2
    /\ \A j \in Samples \ {i} : StoredState(fs_state, cfg, lba)[j] # ERROR_C2
    /\ \A l \in LBAs \ {lba} : ~Has(StoredState(fs_state, cfg, l), ERROR_C2)

\* C27: when the dump left exactly one ERROR_C2 sample at one LBA and
\* errors_c2 = 1, a refine whose re-read of that LBA has no C2 bits sets the
\* state of the sample to SUCCESS with the data word of the re-read, leaves
\* no ERROR_C2 sample in the sector and takes errors_c2 from 1 to 0.
C27_CleanRereadClearsC2 ==
    [][\A i \in Samples :
        /\ pc = "store" /\ pc' # pc /\ OneC2Sample(i) /\ sector_state = AllOf(SUCCESS) =>
              /\ pc' = "rstate"
              /\ sector_state' = AllOf(SUCCESS)
              /\ StoredData(fs_scm', cfg, lba)[i] = sector_data[i]
              /\ sector_data[i] # OldWord
        /\ pc = "rstate" /\ pc' # pc /\ OneC2Sample(i) /\ sector_state = AllOf(SUCCESS) =>
              /\ StoredState(fs_state', cfg, lba)[i] = SUCCESS
              /\ ~Has(StoredState(fs_state', cfg, lba), ERROR_C2)
              /\ errors_c2' = 0]_vars

\* the refine wrote the state of the sector whose one ERROR_C2 sample a clean
\* re-read replaced, and no error is counted any more
C27_Witness ==
    /\ cfg.refine /\ pc \in {"rsub", "poll"}
    /\ {"data", "state"} \subseteq wrote[lba]
    /\ c2seen = {} /\ reads[lba] = 1
    /\ StoredState(fs_state, cfg, lba) = AllOf(SUCCESS)
    /\ \A i \in Samples : StoredData(fs_scm, cfg, lba)[i] = sector_data[i]
    /\ \E i \in Samples : sector_data[i] # OldWord
    /\ errors_c2 = 0 /\ prelude_log # << >>
    /\ prelude_log[Len(prelude_log)].c2 = 1

-----------------------------------------------------------------------------
(* The flush after a run of Q errors                                         *)

\* C30: in a dump every stored sector with an invalid Q adds one to
\* errors_q, and the drive cache is flushed at the stored sector for which,
\* after that increment, errors_q - errors_q_last > 5, the 6th in a row with
\* an invalid Q; a stored sector with a valid Q sets errors_q_last = errors_q.
C30_FlushOnSixthBadQ ==
    [][pc = "dsub" /\ pc' = "dstate" =>
        IF sector_subcode.valid
        THEN errors_q_last' = errors_q /\ errors_q' = errors_q /\ flushes' = flushes
        ELSE /\ errors_q' = errors_q + 1
             /\ (lba \in flushes') <=> (errors_q' - errors_q_last > 5)]_vars

-----------------------------------------------------------------------------
(* The subcode shift                                                         *)

\* the sector being stored carries a valid Q with adr = 1 and tno # 0
PositionQ == cfg.subcode /\ sector_subcode.valid /\ sector_subcode.pos

\* fs differs from gs in the records of the sector at lba at most
OnlyAtLba(fs, gs, entry_size, shift) ==
    \A p \in DOMAIN fs :
        fs[p] # gs[p] =>
            p - ((lba - LBA_START) * entry_size + shift) \in 0..(entry_size - 1)

-----------------------------------------------------------------------------
(* The flush ahead of a re-read                                              *)

\* C32: in a refine the drive cache is flushed right before the read_sector
\* of an LBA exactly when the stored state of that LBA has an ERROR_C2
\* sample, whatever the states of its other samples are.
C32_FlushIffStoredC2 ==
    pc = "read" /\ cfg.refine =>
        (flush <=> Has(StoredState(fs_state, cfg, lba), ERROR_C2))

-----------------------------------------------------------------------------
(* The end of the disc taken from the TOC                                    *)

\* C33: ahead of the command line, lba_end is MSF_to_LBA(74:00:00) exactly
\* when the lba_end of the last track is at or below its lba_start, and
\* the lba_end of the last track of the last session otherwise.
C33_FakeTocEndNotPastStart ==
    call.fn = "toc_lba_end" /\ call.done =>
        call.lba_end = IF call.last.lba_end <= call.last.lba_start
                       THEN LBA_74MIN ELSE call.last.lba_end

\* C33 as the code has it: ahead of the command line, lba_end is
\* MSF_to_LBA(74:00:00) exactly when the lba_end of the last track of the
\* last session is negative, and that lba_end otherwise, wherever the
\* track starts.
C33_FakeTocEndNegative ==
    call.fn = "toc_lba_end" /\ call.done =>
        /\ call.last.lba_end < 0 => call.lba_end = 74 * 60 * 75 - 150
        /\ call.last.lba_end >= 0 => call.lba_end = call.last.lba_end

C33_Witness ==
    /\ call.fn = "toc_lba_end" /\ call.done /\ call.two
    /\ call.last.lba_end = -2 /\ call.last.lba_start = -3
    /\ call.lba_end = 332850

-----------------------------------------------------------------------------
(* The end of the loop                                                       *)

LoopOver == pc \in {"done", "thrown"}

\* lba moves forward when a dump iteration ends, and a read that fails at
\* lba_overread - 1 cuts lba_overread to lba, which ends the loop
LoopAdvances ==
    [][ /\ InLoop /\ ~cfg.refine => lba' >= lba
        /\ ~cfg.refine /\ pc = "loop" /\ pc' = "loop" /\ interrupt' = interrupt
             => lba' > lba
        /\ ~cfg.refine /\ pc = "poll" /\ pc' = "loop" => lba' > lba
        /\ pc = "read" /\ pc' = "poll" /\ lba \in failed' /\ lba + 1 = lba_overread
             => lba_overread' = lba
        /\ pc = "poll" /\ lba_overread = lba /\ pc' # pc
             => pc' = "loop" /\ ~(lba' < lba_overread') ]_vars

\* the drive fails a read at or past lba_end, or --lba-end is given
EndInSight == cfg.opt_lba_end.set \/ ~Endless(cfg)

\* C34: lba grows in every dump iteration, a read that fails at
\* lba_overread - 1 sets lba_overread to lba and ends the loop, every dump
\* ends when --lba-end is given or the drive fails a read at or past
\* lba_end, and every refine pass ends without that proviso.
C34_RefineEndsUnconditionally ==
    /\ LoopAdvances
    /\ (InLoop /\ ~cfg.refine /\ EndInSight) ~> LoopOver
    /\ (InLoop /\ cfg.refine) ~> LoopOver

\* C34 as the code has it: lba grows in every dump iteration, a read that
\* fails at lba_overread - 1 sets lba_overread to lba and ends the loop, and
\* a dump and a refine pass alike end when --lba-end is given or the drive
\* fails a read at or past lba_end.
C34_LoopEndsWithEndInSight ==
    /\ LoopAdvances
    /\ (InLoop /\ ~cfg.refine /\ EndInSight) ~> LoopOver
    /\ (InLoop /\ cfg.refine /\ EndInSight) ~> LoopOver

\* a refine pass that read past lba_end and ended when the drive failed
C34_Witness ==
    /\ cfg.refine /\ pc = "done" /\ ~interrupt /\ ~cfg.opt_lba_end.set
    /\ lba_overread > lba_end /\ lba_overread \in failed

-----------------------------------------------------------------------------
(* Where the records of a sector are                                         *)

\* the samples of the stream that belong to the sector at LBA l
Window(l, p) ==
    p - ((l - LBA_START) * CD_DATA_SIZE_SAMPLES + cfg.read_offset) \in Samples

\* C35: data and state records are written and read at entry lba - LBA_START
\* shifted by read_offset samples (read_offset * 4 bytes of data), in the
\* loop and in the commit of the lead-in, so that what a dump stored for a
\* sector is what a refine reads for it; subcode records are whole slots.
C35_StreamsByLbaAndOffset ==
    /\ [][
            /\ InLoop /\ fs_scm' # fs_scm =>
                /\ fs_scm' = write_entry(fs_scm, sector_data', CD_DATA_SIZE_SAMPLES,
                                         lba - LBA_START, cfg.read_offset)
                /\ StoredData(fs_scm', cfg, lba) = sector_data'
            /\ InLoop /\ fs_state' # fs_state =>
                /\ fs_state' = write_entry(fs_state, sector_state, CD_DATA_SIZE_SAMPLES,
                                           lba - LBA_START, cfg.read_offset)
                /\ StoredState(fs_state', cfg, lba) = sector_state
            /\ InLoop /\ fs_sub' # fs_sub =>
                \E slot \in DOMAIN fs_sub : fs_sub' = [fs_sub EXCEPT ![slot] = sector_subcode]
            /\ pc = "leadin" =>
                /\ \A p \in DOMAIN fs_state :
                      fs_state'[p] # fs_state[p] \/ fs_scm'[p] # fs_scm[p] =>
                          \E l \in LBAs :
                              /\ Window(l, p)
                              /\ StoredState(fs_state', cfg, l) = AllOf(SUCCESS_C2_OFF)
                /\ \A p \in DOMAIN fs_sub :
                      fs_sub'[p] # fs_sub[p] => ~fs_sub[p].valid /\ p + LBA_START \in LBAs
          ]_vars
    /\ [](pc = "done" /\ ~cfg.refine =>
            \A l \in LBAs :
                "state" \in wrote[l] =>
                    /\ StoredData(fs_scm, cfg, l) = AllOf(NewWord(0))
                    /\ (l \notin c2seen =>
                          \A i \in Samples : StoredState(fs_state, cfg, l)[i] >= SUCCESS_SCSI_OFF)
                    /\ (l \in c2seen => Has(StoredState(fs_state, cfg, l), ERROR_C2)))

\* a dump with a read offset has stored a sector with C2 errors and clean ones
C35_Witness ==
    /\ pc = "done" /\ ~cfg.refine /\ cfg.read_offset # 0
    /\ \E l \in c2seen : "state" \in wrote[l] /\ "state" \in wrote[l + 1]
                           /\ l + 1 \notin c2seen
                           /\ Has(StoredState(fs_state, cfg, l), ERROR_C2)

-----------------------------------------------------------------------------
(* The subcode record in a refine                                            *)

\* the new Q is valid and the Q of the stored record is not
QImproves == sector_subcode.valid /\ ~read_sub(fs_sub, lba - LBA_START + subcode_shift).valid

\* the subcode stream after the subcode step of a refine
SubAfterRefine ==
    IF QImproves
    THEN [fs_sub EXCEPT ![lba - LBA_START + subcode_shift] = sector_subcode]
    ELSE fs_sub

\* C36: in a refine the subcode record at lba_index + subcode_shift is
\* replaced exactly when the new Q is valid and the stored Q is not, and
\* errors_q goes down by one in exactly that case.
C36_QCountFollowsOverwrite ==
    [][pc = "rsub" /\ pc' # pc =>
            /\ fs_sub' = SubAfterRefine
            /\ errors_q' = IF QImproves THEN U32(errors_q - 1) ELSE errors_q]_vars

\* C36 as the code has it: the record is replaced exactly when the new Q is
\* valid and the stored Q is not, a valid stored record is never replaced,
\* and errors_q goes down by one exactly when the record is replaced and lba
\* is outside every error range.
C36_QCountOutsideErrorRanges ==
    [][pc = "rsub" /\ pc' # pc =>
            /\ fs_sub' = SubAfterRefine
            /\ read_sub(fs_sub, lba - LBA_START + subcode_shift).valid => fs_sub' = fs_sub
            /\ errors_q' = IF QImproves /\ inside_range(lba, error_ranges) = 0
                           THEN U32(errors_q - 1) ELSE errors_q]_vars

\* a refine has replaced the subcode record of a sector between the sessions
C36_Witness ==
    /\ cfg.refine /\ pc = "poll" /\ "sub" \in wrote[lba]
    /\ inside_range(lba, error_ranges) # 0
    /\ read_sub(fs_sub, lba - LBA_START + subcode_shift) = sector_subcode

-----------------------------------------------------------------------------
(* The counters of a refine against the stream it leaves                     *)

\* C37: when a refine pass ends, by itself, by a signal or by an exception,
\* and between any two of its iterations, errors_scsi and errors_c2 are
\* what the prelude sweep would count in the state stream as it is.
C37_CountersMatchFreshSweep ==
    cfg.refine /\ pc \in {"loop", "done", "thrown"} =>
        /\ errors_scsi = prelude_scsi(fs_state, cfg, lba_start, lba_end,
                                      skip_ranges, error_ranges)
        /\ errors_c2 = prelude_c2(fs_state, cfg, lba_start, lba_end,
                                  skip_ranges, error_ranges)

\* an interrupted refine in which a sector traded ERROR_SKIP for ERROR_C2
C37_Witness ==
    /\ cfg.refine /\ pc = "done" /\ stopped
    /\ errors_scsi + 1 = prelude_log[Len(prelude_log)].scsi
    /\ errors_c2 = prelude_log[Len(prelude_log)].c2 + 1
    /\ errors_c2 = prelude_c2(fs_state, cfg, lba_start, lba_end, skip_ranges, error_ranges)

-----------------------------------------------------------------------------
(* errors_q in a refine                                                      *)

\* C38: in a refine errors_q never passes below zero: it stays at or under
\* the count of the pass's prelude, past lba_end and with a subcode_shift
\* other than zero too.
C38_ErrorsQNeverWraps ==
    cfg.refine /\ (InLoop \/ pc = "done") =>
        errors_q <= prelude_log[Len(prelude_log)].q

-----------------------------------------------------------------------------
(* Data before state                                                         *)

=============================================================================
